---- MODULE Spec2Model ----
(***************************************************************************)
(* Model of the ROCm artifact discovery and compatibility engine of        *)
(* aibenchy: src/src/rocm-parser.js (parseArtifactInfo,                    *)
(* parseRocmArtifacts, filterArtifacts), src/src/system-detect.js          *)
(* (detectSystem, mapArchToRocmGpu, findCompatibleArtifacts),              *)
(* src/src/detect-and-list.js (main), src/src/pytorch-parser.js            *)
(* (parsePackageName, groupPackagesByName) and src/unnamed/part_001        *)
(* (installRocm).                                                          *)
(*                                                                         *)
(* JavaScript strings are TLA+ strings.  A value that may also be null or  *)
(* undefined (variant, buildDate, a listing entry's name) is a tagged      *)
(* record: Str(s), Null, Undefined, Num(n).                                *)
(***************************************************************************)
EXTENDS Integers, Sequences, FiniteSets, TLC

VARIABLES
  pc,         \* position of the running function
  filename,   \* parseArtifactInfo: the filename argument
  artifact,   \* parseArtifactInfo: the returned value (a record or Null)
  response,   \* parseRocmArtifacts: what axios.get(url) gives
  filesData,  \* parseRocmArtifacts: the parsed files array
  fileIdx,    \* parseRocmArtifacts: the element forEach is at (1-based)
  artifacts,  \* parseRocmArtifacts: the array being built and returned
  catalog,    \* findCompatibleArtifacts: the artifacts argument
  systemInfo, \* findCompatibleArtifacts: the systemInfo argument
  options,    \* findCompatibleArtifacts: the options argument
  compatible, \* findCompatibleArtifacts: the returned array
  warned,     \* findCompatibleArtifacts: console.warn was called
  filters,    \* filterArtifacts: the filters argument
  filtered,   \* filterArtifacts: the returned array
  pending,    \* the latest collapse: the array forEach runs over
  groupIdx,   \* the latest collapse: the element forEach is at (1-based)
  grouped,    \* the latest collapse: the object grouped
  osPlatform, \* detectSystem: what os.platform() gives
  rocminfo,   \* detectGpuArch: what execSync('rocminfo') does
  lspci,      \* detectGpuArch: what execSync('lspci -nn | grep ...') does
  lspciRan,   \* detectGpuArch: the lspci command line was run
  gpuArch,    \* detectGpuArch: the returned value
  error,      \* detectSystem: the Error thrown to the caller
  detectedArch,   \* mapArchToRocmGpu: the argument
  archFamilies,   \* mapArchToRocmGpu: the returned value
  latestStable,   \* detect-and-list main: the build it recommends
  collator,       \* the collation localeCompare runs with in this build of node
  wheels,         \* the wheel filenames of a package listing
  packages,       \* groupPackagesByName: the packages argument
  compared,       \* groupPackagesByName: what the sort comparator returns
  tarPath,        \* installRocm: what the archive at tarPath holds
  needsSudo,      \* installRocm: requiresSudo(path.dirname(installDir))
  buildInfo,      \* installRocm: the buildInfo argument
  installDir,     \* installRocm: what is at installDir
  backupDir,      \* installRocm: what is at backupDir
  tempDir,        \* installRocm: what is at tempDir
  extractedPath   \* installRocm: the local extractedPath

parseVars == <<filename, artifact>>
catalogVars == <<response, filesData, fileIdx, artifacts>>
filterVars ==
  <<catalog, systemInfo, options, compatible, warned, filters, filtered,
    pending, groupIdx, grouped>>
detectVars == <<osPlatform, rocminfo, lspci, lspciRan, gpuArch, error>>
mapVars == <<detectedArch, archFamilies>>
recommendVars == <<latestStable>>
sortVars == <<collator, wheels, packages, compared>>
installVars ==
  <<tarPath, needsSudo, buildInfo, installDir, backupDir, tempDir, extractedPath>>
moreVars == <<mapVars, recommendVars, sortVars, installVars>>
vars == <<pc, parseVars, catalogVars, filterVars, detectVars, moreVars>>

---------------------------------------------------------------------------
(* JavaScript values *)

Null == [t |-> "null"]
Undefined == [t |-> "undefined"]
Str(s) == [t |-> "string", v |-> s]
Num(n) == [t |-> "number", v |-> n]

---------------------------------------------------------------------------
(* String primitives *)

Digits == {"0", "1", "2", "3", "4", "5", "6", "7", "8", "9"}

\* . in a JavaScript regular expression (no s flag) matches any character
\* except a line terminator
LineTerminators == {"\n", "\r"}

CharAt(s, i) == SubSeq(s, i, i)

\* String.prototype.startsWith / endsWith / includes
startsWith(s, p) == Len(p) <= Len(s) /\ SubSeq(s, 1, Len(p)) = p

endsWith(s, x) == Len(x) <= Len(s) /\ SubSeq(s, Len(s) - Len(x) + 1, Len(s)) = x

includes(s, t) ==
  \E i \in 1..(Len(s) - Len(t) + 1) : SubSeq(s, i, i + Len(t) - 1) = t

\* s.split('-')
RECURSIVE split(_)
split(s) ==
  IF \A i \in 1..Len(s) : CharAt(s, i) # "-"
  THEN <<s>>
  ELSE LET i == CHOOSE k \in 1..Len(s) :
                  /\ CharAt(s, k) = "-"
                  /\ \A j \in 1..(k - 1) : CharAt(s, j) # "-"
       IN <<SubSeq(s, 1, i - 1)>> \o split(SubSeq(s, i + 1, Len(s)))

\* a.join('-')
RECURSIVE join(_)
join(a) ==
  IF Len(a) = 0 THEN ""
  ELSE IF Len(a) = 1 THEN a[1]
  ELSE a[1] \o "-" \o join(Tail(a))

\* first index at or after i that does not hold a digit (\d+ is greedy)
RECURSIVE skipDigits(_, _)
skipDigits(s, i) ==
  IF i <= Len(s) /\ CharAt(s, i) \in Digits THEN skipDigits(s, i + 1) ELSE i

\* \d+\. at index p: the index after the dot, or 0 when there is no match
matchNumDot(s, p) ==
  IF p = 0 THEN 0
  ELSE LET e == skipDigits(s, p)
       IN IF e > p /\ e <= Len(s) /\ CharAt(s, e) = "." THEN e + 1 ELSE 0

---------------------------------------------------------------------------
(* parseArtifactInfo, src/src/rocm-parser.js:68-143 *)

BaseUrl == "https://therock-nightly-tarball.s3.amazonaws.com"

\* filename.replace(/^therock-dist-/, '').replace(/\.tar\.gz$/, '')
cleaned(name) ==
  LET a == IF startsWith(name, "therock-dist-")
           THEN SubSeq(name, Len("therock-dist-") + 1, Len(name))
           ELSE name
  IN IF endsWith(a, ".tar.gz") THEN SubSeq(a, 1, Len(a) - Len(".tar.gz")) ELSE a

\* /^\d+\.\d+\./.test(part)
isVersionStart(part) == matchNumDot(part, matchNumDot(part, 1)) # 0

\* for (let i = parts.length - 1; i >= 0; i--): the greatest index (1-based
\* here) of a part that passes the test, 0 for versionIndex === -1
findVersionIndex(parts) ==
  IF \E i \in 1..Len(parts) : isVersionStart(parts[i])
  THEN CHOOSE i \in 1..Len(parts) :
         /\ isVersionStart(parts[i])
         /\ \A j \in (i + 1)..Len(parts) : ~isVersionStart(parts[j])
  ELSE 0

\* parts.slice(1, versionIndex), versionIndex being 0-based in the source
middlePartsOf(parts, vi) == SubSeq(parts, 2, vi - 1)

\* gpuOf with the variant token left inside the GPU tag
gpuOfJoinsAll(middleParts) ==
  IF Len(middleParts) = 1 THEN middleParts[1]
  ELSE IF Len(middleParts) = 2 THEN middleParts[1]
  ELSE join(middleParts)

gpuOf(middleParts) ==
  IF Len(middleParts) = 1 THEN middleParts[1]
  ELSE IF Len(middleParts) = 2 THEN middleParts[1]
  ELSE join(SubSeq(middleParts, 1, Len(middleParts) - 1))

\* middleParts[middleParts.length - 1] of an empty array is undefined
variantOf(middleParts) ==
  IF Len(middleParts) = 1 THEN Str("default")
  ELSE IF Len(middleParts) = 2 THEN Str(middleParts[2])
  ELSE IF Len(middleParts) = 0 THEN Undefined
  ELSE Str(middleParts[Len(middleParts)])

\* \d+\.\d+\.\d+ at index p: the index after the match, or 0
coreEndAt(s, p) ==
  LET b == matchNumDot(s, matchNumDot(s, p))
  IN IF b # 0 /\ skipDigits(s, b) > b THEN skipDigits(s, b) ELSE 0

\* (.*) from index e: up to the first line terminator
RECURSIVE restOfLine(_, _)
restOfLine(s, e) ==
  IF e <= Len(s) /\ CharAt(s, e) \notin LineTerminators
  THEN CharAt(s, e) \o restOfLine(s, e + 1)
  ELSE ""

\* version.match(/(\d+\.\d+\.\d+)(.*)/): the leftmost match, <<group 1,
\* group 2>>, or Null
versionMatch(version) ==
  IF \E p \in 1..Len(version) : coreEndAt(version, p) # 0
  THEN LET p == CHOOSE k \in 1..Len(version) :
                  /\ coreEndAt(version, k) # 0
                  /\ \A j \in 1..(k - 1) : coreEndAt(version, j) = 0
           e == coreEndAt(version, p)
       IN [g1 |-> SubSeq(version, p, e - 1), g2 |-> restOfLine(version, e)]
  ELSE Null

rocmVersionOf(version) ==
  IF versionMatch(version) # Null THEN versionMatch(version).g1 ELSE version

buildTagOf(version) ==
  IF versionMatch(version) # Null THEN versionMatch(version).g2 ELSE ""

isDigitRun(s, i, n) == \A j \in i..(i + n - 1) : CharAt(s, j) \in Digits

\* dateMatch taking the rightmost run of 8 digits instead of the leftmost
dateMatchRightmost(buildTag) ==
  IF \E i \in 1..(Len(buildTag) - 7) : isDigitRun(buildTag, i, 8)
  THEN LET i == CHOOSE k \in 1..(Len(buildTag) - 7) :
                  /\ isDigitRun(buildTag, k, 8)
                  /\ \A j \in (k + 1)..(Len(buildTag) - 7) : ~isDigitRun(buildTag, j, 8)
       IN Str(SubSeq(buildTag, i, i + 7))
  ELSE Null

\* buildTag.match(/(\d{8})/): the leftmost run, or Null
dateMatch(buildTag) ==
  IF \E i \in 1..(Len(buildTag) - 7) : isDigitRun(buildTag, i, 8)
  THEN LET i == CHOOSE k \in 1..(Len(buildTag) - 7) :
                  /\ isDigitRun(buildTag, k, 8)
                  /\ \A j \in 1..(k - 1) : ~isDigitRun(buildTag, j, 8)
       IN Str(SubSeq(buildTag, i, i + 7))
  ELSE Null

\* `${dateStr.slice(0, 4)}-${dateStr.slice(4, 6)}-${dateStr.slice(6, 8)}`
formatDate(dateStr) ==
  SubSeq(dateStr, 1, 4) \o "-" \o SubSeq(dateStr, 5, 6) \o "-" \o SubSeq(dateStr, 7, 8)

buildDateOf(buildTag) ==
  IF dateMatch(buildTag) # Null THEN Str(formatDate(dateMatch(buildTag).v)) ELSE Null

parseArtifactInfo(url, name) ==
  LET parts == split(cleaned(name))
      versionIndex == findVersionIndex(parts)
      version == parts[versionIndex]
      middleParts == middlePartsOf(parts, versionIndex)
  IN IF Len(parts) < 3 THEN Null
     ELSE IF versionIndex = 0 THEN Null
     ELSE [filename    |-> name,
           url         |-> url,
           platform    |-> parts[1],
           gpu         |-> gpuOf(middleParts),
           variant     |-> variantOf(middleParts),
           rocmVersion |-> rocmVersionOf(version),
           buildTag    |-> buildTagOf(version),
           buildDate   |-> buildDateOf(buildTagOf(version)),
           fullVersion |-> version]

---------------------------------------------------------------------------
(* Inputs of parseArtifactInfo *)

MaxTokens == 5
MaxChunks == 3

\* tokens of the filenames that vary the token structure
ShapeTokens == {"linux", "gfx110X", "all", "", "7.10.0"}

\* the pieces of the version tokens that vary the version text
Cores == {"7.10.0", "7.10.", "7.10.x", "x7.1.0"}
Chunks == {"a", "rc", "2025", "1030", "7", ".7", "\n"}

RECURSIVE concat(_)
concat(a) == IF Len(a) = 0 THEN "" ELSE a[1] \o concat(Tail(a))

SeqsUpTo(S, n) == UNION {[1..k -> S] : k \in 0..n}

ShapeNames ==
  {"therock-dist-" \o join(toks) \o ".tar.gz" : toks \in SeqsUpTo(ShapeTokens, MaxTokens)}

VersionNames ==
  {"therock-dist-linux-gfx1151-" \o core \o concat(tag) \o ".tar.gz" :
     core \in Cores, tag \in SeqsUpTo(Chunks, MaxChunks)}

\* the filenames of the comments at src/src/rocm-parser.js:70-73, and names
\* without the prefix or the extension
ExampleNames ==
  {"therock-dist-linux-gfx110X-all-7.10.0a20251030.tar.gz",
   "therock-dist-linux-gfx101X-dgpu-7.10.0a20251022.tar.gz",
   "therock-dist-windows-gfx1151-7.0.0rc20250630.tar.gz",
   "therock-dist-linux-gfx1151-ADHOCBUILD-7.0.0rc20250625.tar.gz",
   "linux-gfx1151-7.0.0rc20250630",
   "therock-dist-linux-gfx1151-7.0.0.tar.gz-extra",
   "index.html"}

FileNames == ShapeNames \cup VersionNames \cup ExampleNames

---------------------------------------------------------------------------
(* Specification of one call of parseArtifactInfo *)

CatalogIdle ==
  /\ response = Null
  /\ filesData = <<>>
  /\ fileIdx = 0
  /\ artifacts = <<>>

GroupIdle ==
  /\ pending = <<>>
  /\ groupIdx = 0
  /\ grouped = <<>>

FilterIdle ==
  /\ catalog = <<>>
  /\ systemInfo = Null
  /\ options = Null
  /\ compatible = <<>>
  /\ warned = FALSE
  /\ filters = Null
  /\ filtered = <<>>
  /\ GroupIdle

DetectIdle ==
  /\ osPlatform = ""
  /\ rocminfo = Null
  /\ lspci = Null
  /\ lspciRan = FALSE
  /\ gpuArch = Undefined
  /\ error = Null

MapIdle ==
  /\ detectedArch = Null
  /\ archFamilies = Null

RecommendIdle == latestStable = Undefined

SortIdle ==
  /\ collator = ""
  /\ wheels = <<>>
  /\ packages = <<>>
  /\ compared = <<>>

InstallIdle ==
  /\ tarPath = ""
  /\ needsSudo = FALSE
  /\ buildInfo = Null
  /\ installDir = ""
  /\ backupDir = ""
  /\ tempDir = ""
  /\ extractedPath = ""

MoreIdle == MapIdle /\ RecommendIdle /\ SortIdle /\ InstallIdle

InitParse ==
  /\ MoreIdle
  /\ pc = "parse"
  /\ filename \in FileNames
  /\ artifact = Null
  /\ CatalogIdle
  /\ FilterIdle
  /\ DetectIdle

ParseArtifactInfo ==
  /\ pc = "parse"
  /\ artifact' = parseArtifactInfo(BaseUrl \o "/" \o filename, filename)
  /\ pc' = "parsed"
  /\ UNCHANGED <<filename, catalogVars, filterVars, detectVars, moreVars>>

NextParse == ParseArtifactInfo

SpecParse == InitParse /\ [][NextParse]_vars

---------------------------------------------------------------------------
(* parseRocmArtifacts, src/src/rocm-parser.js:8-60 *)

\* The fetched document is modelled by what html.match and JSON.parse make of
\* it: no 'const files = [...];' in it ("none"), one whose text is not JSON
\* ("invalid"), or one that parses to the array `files`.
Html(match, files) == [match |-> match, files |-> files]

\* axios.get(url) throws, or gives response.data
FetchError == [ok |-> FALSE]
Fetched(html) == [ok |-> TRUE, data |-> html]

\* artifact.mtime = fileObj.mtime
withMtime(a, mtime) ==
  [f \in DOMAIN a \cup {"mtime"} |-> IF f = "mtime" THEN mtime ELSE a[f]]

\* fileObj.name of null, and .startsWith of a value that is not a string,
\* throw a TypeError
entryThrows(fileObj) == fileObj = Null \/ fileObj.name.t # "string"

\* if (filename.startsWith('therock-dist') && filename.endsWith('.tar.gz'))
isTarball(name) == startsWith(name, "therock-dist") /\ endsWith(name, ".tar.gz")

\* the body of the forEach callback for an element that does not throw: the
\* artifacts array after it
processEntry(acc, fileObj) ==
  LET name == fileObj.name.v
      a == parseArtifactInfo(BaseUrl \o "/" \o name, name)
  IN IF isTarball(name) /\ a # Null
     THEN Append(acc, withMtime(a, fileObj.mtime))
     ELSE acc

---------------------------------------------------------------------------
(* Inputs of parseRocmArtifacts *)

MaxFiles == 3

Entries ==
  {[name |-> Str("therock-dist-linux-gfx110X-all-7.10.0a20251030.tar.gz"), mtime |-> Num(1)],
   [name |-> Str("therock-dist-windows-gfx1151-7.0.0rc20250630.tar.gz"), mtime |-> Num(2)],
   [name |-> Str("index.html"), mtime |-> Num(3)],
   [name |-> Str("therock-dist-linux.tar.gz"), mtime |-> Num(4)],
   [name |-> Str("therock-distro-linux-gfx1151-7.0.0.tar.gz"), mtime |-> Undefined],
   [name |-> Undefined, mtime |-> Num(6)],
   [name |-> Num(7), mtime |-> Num(7)],
   Null}

Responses ==
  {FetchError, Fetched(Html("none", <<>>)), Fetched(Html("invalid", <<>>))}
    \cup {Fetched(Html("array", files)) : files \in SeqsUpTo(Entries, MaxFiles)}

---------------------------------------------------------------------------
(* Specification of one call of parseRocmArtifacts *)

InitCatalog ==
  /\ MoreIdle
  /\ pc = "fetch"
  /\ response \in Responses
  /\ filesData = <<>>
  /\ fileIdx = 0
  /\ artifacts = <<>>
  /\ filename = ""
  /\ artifact = Null
  /\ FilterIdle
  /\ DetectIdle

\* line 13: axios.get throws; the outer catch logs and rethrows (56-59)
FetchFails ==
  /\ pc = "fetch"
  /\ ~response.ok
  /\ pc' = "rejected"
  /\ UNCHANGED <<parseVars, moreVars, detectVars, catalogVars, filterVars>>

\* lines 13-16
FetchSucceeds ==
  /\ pc = "fetch"
  /\ response.ok
  /\ artifacts' = <<>>
  /\ pc' = "match"
  /\ UNCHANGED <<parseVars, moreVars, detectVars, filterVars, response, filesData, fileIdx>>

\* lines 21-26: without a files array the empty artifacts array is returned
MatchFilesArray ==
  /\ pc = "match"
  /\ pc' = IF response.data.match = "none" THEN "resolved" ELSE "jsonParse"
  /\ UNCHANGED <<parseVars, moreVars, detectVars, catalogVars, filterVars>>

\* lines 28-31 and 50-54: a JSON.parse error is caught and logged, and the
\* artifacts array is returned
JsonParse ==
  /\ pc = "jsonParse"
  /\ IF response.data.match = "invalid"
     THEN pc' = "resolved" /\ UNCHANGED <<filesData, fileIdx>>
     ELSE /\ filesData' = response.data.files
          /\ fileIdx' = 1
          /\ pc' = "forEach"
  /\ UNCHANGED <<parseVars, moreVars, detectVars, filterVars, response, artifacts>>

\* lines 34-47, one element; an exception leaves forEach and is caught at
\* lines 50-52, and the artifacts array built so far is returned
ForEachEntry ==
  /\ pc = "forEach"
  /\ fileIdx <= Len(filesData)
  /\ IF entryThrows(filesData[fileIdx])
     THEN pc' = "resolved" /\ UNCHANGED <<artifacts, fileIdx>>
     ELSE /\ artifacts' = processEntry(artifacts, filesData[fileIdx])
          /\ fileIdx' = fileIdx + 1
          /\ pc' = "forEach"
  /\ UNCHANGED <<parseVars, moreVars, detectVars, filterVars, response, filesData>>

\* lines 49-54
ForEachDone ==
  /\ pc = "forEach"
  /\ fileIdx > Len(filesData)
  /\ pc' = "resolved"
  /\ UNCHANGED <<parseVars, moreVars, detectVars, catalogVars, filterVars>>

NextCatalog ==
  \/ FetchFails
  \/ FetchSucceeds
  \/ MatchFilesArray
  \/ JsonParse
  \/ ForEachEntry
  \/ ForEachDone

SpecCatalog == InitCatalog /\ [][NextCatalog]_vars

---------------------------------------------------------------------------
(* Properties of parseRocmArtifacts *)

Settled == pc \in {"resolved", "rejected"}

\* C7: a document without a files array, or with one that is not JSON, makes
\* the returned promise reject.
C7_UnparseableRejects ==
  (Settled /\ response.ok /\ response.data.match \in {"none", "invalid"})
    => pc = "rejected"

\* the artifacts the listing should give: in listing order, the entries whose
\* name is a string with the prefix and the extension that parses
RECURSIVE ExpectedArtifacts(_)
ExpectedArtifacts(files) ==
  IF files = <<>> THEN <<>>
  ELSE LET f == Head(files)
           keep == /\ f # Null
                   /\ f.name.t = "string"
                   /\ startsWith(f.name.v, "therock-dist")
                   /\ endsWith(f.name.v, ".tar.gz")
                   /\ parseArtifactInfo(BaseUrl \o "/" \o f.name.v, f.name.v) # Null
       IN (IF keep
           THEN <<withMtime(parseArtifactInfo(BaseUrl \o "/" \o f.name.v, f.name.v), f.mtime)>>
           ELSE <<>>) \o ExpectedArtifacts(Tail(files))

\* C8: for any listing the call returns exactly the artifacts of the entries
\* that are tarballs and parse, in listing order; any other entry is skipped
\* and does not stop the entries after it.
C8_SkipsAndContinues ==
  (/\ Settled /\ response.ok /\ response.data.match = "array"
   /\ \A i \in 1..Len(response.data.files) : response.data.files[i] # Null)
    => /\ pc = "resolved"
       /\ artifacts = ExpectedArtifacts(response.data.files)

---------------------------------------------------------------------------
(* Properties of parseArtifactInfo *)

Returned == pc = "parsed" /\ artifact # Null

\* the tokens of the stripped filename, and the 1-based index of the
\* rightmost one that starts like a version (0 when there is none)
Tokens == split(cleaned(filename))
VersionAt == findVersionIndex(Tokens)

\* ^\d+\.\d+\.\d+$
IsCoreVersion(s) == coreEndAt(s, 1) = Len(s) + 1

\* C1: every returned artifact has a rocmVersion of the form
\* digits.digits.digits, whatever the filename.
C1_CoreVersionWellFormed == Returned => IsCoreVersion(artifact.rocmVersion)

\* C2: every returned artifact has a non-empty gpu and a defined variant
\* string, whatever the filename.
C2_GpuAndVariantDefined ==
  Returned => artifact.gpu # "" /\ artifact.variant.t = "string"

\* C3: the result is null whenever the stripped filename has fewer than 3
\* tokens or no token after the platform token starts like a version.
C3_NullWithoutVersionAfterPlatform ==
  pc = "parsed" =>
    ((Len(Tokens) < 3 \/ \A i \in 2..Len(Tokens) : ~isVersionStart(Tokens[i]))
       => artifact = Null)

\* C4: with the rightmost version token at token index 2 or higher (0-based),
\* one middle token is the gpu with variant 'default', two are gpu and
\* variant, more are the gpu (all but the last, joined with '-') and the
\* variant (the last); the two filenames of the spec parse as it says.
C4_MiddleTokens ==
  pc = "parsed" /\ VersionAt >= 3 =>
    /\ artifact # Null
    /\ artifact.platform = Tokens[1]
    /\ VersionAt = 3 => artifact.gpu = Tokens[2] /\ artifact.variant = Str("default")
    /\ VersionAt = 4 => artifact.gpu = Tokens[2] /\ artifact.variant = Str(Tokens[3])
    /\ VersionAt > 4 =>
         /\ artifact.gpu \o "-" \o Tokens[VersionAt - 1]
              = join(SubSeq(Tokens, 2, VersionAt - 1))
         /\ artifact.variant = Str(Tokens[VersionAt - 1])
    /\ filename = "therock-dist-linux-gfx110X-all-7.10.0a20251030.tar.gz" =>
         /\ artifact.platform = "linux"
         /\ artifact.gpu = "gfx110X"
         /\ artifact.variant = Str("all")
    /\ filename = "therock-dist-windows-gfx1151-7.0.0rc20250630.tar.gz" =>
         /\ artifact.gpu = "gfx1151"
         /\ artifact.variant = Str("default")

\* a filename with three middle tokens has been parsed
C4_Witness ==
  /\ Returned
  /\ VersionAt = 5
  /\ artifact.gpu = "gfx110X-linux"
  /\ artifact.variant = Str("all")

\* C5: rocmVersion is the leading digits.digits.digits run of the version
\* token and buildTag the remainder: rocmVersion followed by buildTag is
\* fullVersion.
C5_VersionSplit ==
  Returned =>
    /\ IsCoreVersion(artifact.rocmVersion)
    /\ artifact.rocmVersion \o artifact.buildTag = artifact.fullVersion

\* C6: buildDate is YYYY-MM-DD from the first run of 8 digits of buildTag,
\* and null when buildTag has no run of 8 digits.
C6_BuildDate ==
  Returned =>
    LET tag == artifact.buildTag
        Runs == {i \in 1..(Len(tag) - 7) :
                   \A j \in i..(i + 7) : CharAt(tag, j) \in Digits}
    IN IF Runs = {}
       THEN artifact.buildDate = Null
       ELSE LET i == CHOOSE k \in Runs : \A j \in Runs : k <= j
                d == artifact.buildDate.v
            IN /\ artifact.buildDate.t = "string"
               /\ Len(d) = 10
               /\ CharAt(d, 5) = "-" /\ CharAt(d, 8) = "-"
               /\ SubSeq(d, 1, 4) \o SubSeq(d, 6, 7) \o SubSeq(d, 9, 10)
                    = SubSeq(tag, i, i + 7)

\* a build tag with a run of 9 digits after another character has been parsed
C6_Witness ==
  /\ Returned
  /\ artifact.buildTag = ".720251030"
  /\ artifact.buildDate = Str("7202-51-03")

---------------------------------------------------------------------------
(* More of JavaScript's strings *)

UpperCase == "ABCDEFGHIJKLMNOPQRSTUVWXYZ"
LowerCase == "abcdefghijklmnopqrstuvwxyz"

\* each upper-case letter's lower-case letter
LowerOf ==
  [c \in {CharAt(UpperCase, i) : i \in 1..Len(UpperCase)} |->
     CharAt(LowerCase, CHOOSE i \in 1..Len(UpperCase) : CharAt(UpperCase, i) = c)]

lowerChar(c) == IF c \in DOMAIN LowerOf THEN LowerOf[c] ELSE c

\* String.prototype.toLowerCase
RECURSIVE toLowerCase(_)
toLowerCase(s) ==
  IF Len(s) = 0 THEN ""
  ELSE IF Len(s) = 1 THEN lowerChar(s)
  ELSE toLowerCase(SubSeq(s, 1, Len(s) \div 2))
         \o toLowerCase(SubSeq(s, Len(s) \div 2 + 1, Len(s)))

\* the characters of the model's strings, by increasing code unit
CodeOrder == "\n\r-./0123456789:ABCDEFGHIJKLMNOPQRSTUVWXYZabcdefghijklmnopqrstuvwxyz"

CodeOf ==
  [c \in {CharAt(CodeOrder, i) : i \in 1..Len(CodeOrder)} |->
     CHOOSE i \in 1..Len(CodeOrder) : CharAt(CodeOrder, i) = c]

charCode(c) == CodeOf[c]

\* a > b on two strings: by code units, a proper prefix being smaller
RECURSIVE stringGreater(_, _)
stringGreater(a, b) ==
  IF a = "" THEN FALSE
  ELSE IF b = "" THEN TRUE
  ELSE IF Head(a) = Head(b) THEN stringGreater(Tail(a), Tail(b))
  ELSE charCode(Head(a)) > charCode(Head(b))

\* the value of a condition: null, undefined and '' are falsy
truthy(v) == v.t = "string" /\ v.v # ""

\* `${v}` of a string or undefined
toString(v) == IF v.t = "string" THEN v.v ELSE v.t

---------------------------------------------------------------------------
(* mapArchToRocmGpu and detectSystem, src/src/system-detect.js:159-212 *)

archMappings ==
  [gfx1100 |-> <<"gfx110X", "gfx1100">>,
   gfx1101 |-> <<"gfx110X", "gfx1101">>,
   gfx1102 |-> <<"gfx110X", "gfx1102">>,
   gfx1103 |-> <<"gfx110X", "gfx1103">>,
   gfx1150 |-> <<"gfx1150">>,
   gfx1151 |-> <<"gfx1151">>,
   gfx1200 |-> <<"gfx120X", "gfx1200">>,
   gfx1201 |-> <<"gfx120X", "gfx1201">>,
   gfx1030 |-> <<"gfx103X", "gfx1030">>,
   gfx1031 |-> <<"gfx103X", "gfx1031">>,
   gfx1032 |-> <<"gfx103X", "gfx1032">>,
   gfx1010 |-> <<"gfx101X", "gfx1010">>,
   gfx1011 |-> <<"gfx101X", "gfx1011">>,
   gfx1012 |-> <<"gfx101X", "gfx1012">>,
   gfx906  |-> <<"gfx90X", "gfx906">>,
   gfx908  |-> <<"gfx90X", "gfx908">>,
   gfx90a  |-> <<"gfx90X", "gfx94X", "gfx90a">>,
   gfx940  |-> <<"gfx94X", "gfx940">>,
   gfx941  |-> <<"gfx94X", "gfx941">>,
   gfx942  |-> <<"gfx94X", "gfx942">>,
   gfx950  |-> <<"gfx950">>]

\* an array, and a property that archMappings inherits from Object.prototype
Arr(list) == [t |-> "array", v |-> list]
Inherited(key) == [t |-> "inherited", key |-> key]

\* the names every object literal inherits, all of them truthy values
ObjectPrototypeKeys ==
  {"constructor", "toString", "toLocaleString", "valueOf", "hasOwnProperty",
   "isPrototypeOf", "propertyIsEnumerable", "__proto__", "__defineGetter__",
   "__defineSetter__", "__lookupGetter__", "__lookupSetter__"}

\* the list of each key with the specific tag first
mapArchToRocmGpuSpecificFirst(arch) ==
  IF ~truthy(arch) \/ arch = Str("unknown-amd") THEN Arr(<<>>)
  ELSE IF arch.v \in DOMAIN archMappings
  THEN Arr([i \in 1..Len(archMappings[arch.v]) |->
              archMappings[arch.v][Len(archMappings[arch.v]) + 1 - i]])
  ELSE IF arch.v \in ObjectPrototypeKeys THEN Inherited(arch.v)
  ELSE Arr(<<>>)

\* lines 159-190: archMappings[detectedArch] || [], after the guard of line 160
mapArchToRocmGpu(arch) ==
  IF ~truthy(arch) \/ arch = Str("unknown-amd") THEN Arr(<<>>)
  ELSE IF arch.v \in DOMAIN archMappings THEN Arr(archMappings[arch.v])
  ELSE IF arch.v \in ObjectPrototypeKeys THEN Inherited(arch.v)
  ELSE Arr(<<>>)

\* the value as the model holds it in a field: an array as its elements
elements(value) == IF value.t = "array" THEN value.v ELSE value

\* the profile detectSystem builds from a platform and a detected
\* architecture; osInfo is not read by the filter and is left out
systemInfoOf(platform, arch) ==
  [platform        |-> platform,
   gpuArch         |-> arch,
   rocmGpuFamilies |-> elements(mapArchToRocmGpu(arch)),
   detected        |-> arch # Null]

---------------------------------------------------------------------------
(* findCompatibleArtifacts, src/src/system-detect.js:221-273 *)

\* matchesGpu with the artifact's gpu compared as written, not lowercased
matchesGpuCaseSensitive(a, families) ==
  \E i \in 1..Len(families) : includes(a.gpu, toLowerCase(families[i]))

\* lines 235-238
matchesGpu(a, families) ==
  \E i \in 1..Len(families) : includes(toLowerCase(a.gpu), toLowerCase(families[i]))

\* the callback of artifacts.filter, lines 227-246
isCompatible(a, info) ==
  IF a.platform # info.platform THEN FALSE
  ELSE IF Len(info.rocmGpuFamilies) > 0 /\ ~matchesGpu(a, info.rocmGpuFamilies) THEN FALSE
  ELSE TRUE

\* artifact.buildDate && artifact.buildDate > grouped[key].buildDate: against
\* null the date string is compared as a number, NaN, and is not greater
\* the replacement test without its guard on the new artifact's buildDate
isLaterOrUndated(a, kept) ==
  IF ~truthy(a.buildDate) THEN TRUE
  ELSE /\ kept.buildDate.t = "string"
       /\ stringGreater(a.buildDate.v, kept.buildDate.v)

\* lines 264-265 (rocm-parser.js:177-178): artifact.buildDate &&
\* artifact.buildDate > grouped[key].buildDate; a string compared with null
\* is compared as a number, NaN, and the comparison is false
isLater(a, kept) ==
  /\ truthy(a.buildDate)
  /\ kept.buildDate.t = "string"
  /\ stringGreater(a.buildDate.v, kept.buildDate.v)

\* the object grouped, as its keys in insertion order with their values (no
\* key is an array index: each holds a '-'); one step of the forEach
groupedPut(g, key, a) ==
  IF \E i \in 1..Len(g) : g[i].key = key
  THEN LET i == CHOOSE k \in 1..Len(g) : g[k].key = key
       IN IF isLater(a, g[i].value)
          THEN [g EXCEPT ![i] = [key |-> key, value |-> a]]
          ELSE g
  ELSE Append(g, [key |-> key, value |-> a])

\* `${artifact.gpu}-${artifact.variant}`
gpuVariantKey(a) == a.gpu \o "-" \o toString(a.variant)

\* the forEach over the artifacts, each given with its key
RECURSIVE groupLatest(_, _)
groupLatest(g, keyed) ==
  IF keyed = <<>> THEN g
  ELSE groupLatest(groupedPut(g, Head(keyed).key, Head(keyed).value), Tail(keyed))

\* the values in the reverse of the insertion order
objectValuesReversed(g) == [i \in 1..Len(g) |-> g[Len(g) + 1 - i].value]

\* Object.values(grouped)
objectValues(g) == [i \in 1..Len(g) |-> g[i].value]

\* lines 257-270
latestPerGpuVariant(list) ==
  objectValues(groupLatest(<<>>,
    [i \in 1..Len(list) |-> [key |-> gpuVariantKey(list[i]), value |-> list[i]]]))

\* the early return taken for every empty family list as well
returnsEarlyWithoutFamilies(info) == ~info.detected \/ info.rocmGpuFamilies = <<>>

\* no early return at all
returnsEarlyNever(info) == FALSE

\* lines 222-225: without a detected GPU the artifacts are returned as given
returnsEarly(info) == ~info.detected

\* the exact filters applied to the latest artifact of each group
exactFilteredAfterCollapse(list, info, opts) ==
  LET c1 == SelectSeq(list, LAMBDA a : isCompatible(a, info))
      c0 == IF opts.latest THEN latestPerGpuVariant(c1) ELSE c1
      c2 == IF truthy(opts.variant)
            THEN SelectSeq(c0, LAMBDA a : a.variant = opts.variant) ELSE c0
  IN IF truthy(opts.rocmVersion)
     THEN SelectSeq(c2, LAMBDA a : Str(a.rocmVersion) = opts.rocmVersion)
     ELSE c2

\* lines 227-255: the compatible artifacts that pass the exact filters
exactFiltered(list, info, opts) ==
  LET c1 == SelectSeq(list, LAMBDA a : isCompatible(a, info))
      c2 == IF truthy(opts.variant)
            THEN SelectSeq(c1, LAMBDA a : a.variant = opts.variant) ELSE c1
  IN IF truthy(opts.rocmVersion)
     THEN SelectSeq(c2, LAMBDA a : Str(a.rocmVersion) = opts.rocmVersion)
     ELSE c2

\* the whole call, as a function of its arguments
findCompatibleArtifacts(list, info, opts) ==
  IF returnsEarly(info) THEN list
  ELSE IF opts.latest THEN latestPerGpuVariant(exactFiltered(list, info, opts))
  ELSE exactFiltered(list, info, opts)

---------------------------------------------------------------------------
(* filterArtifacts, src/src/rocm-parser.js:151-186 *)

\* lines 152-168
fieldFiltered(list, f) ==
  LET f1 == IF truthy(f.platform)
            THEN SelectSeq(list, LAMBDA a : Str(a.platform) = f.platform) ELSE list
      f2 == IF truthy(f.gpu)
            THEN SelectSeq(f1, LAMBDA a : Str(a.gpu) = f.gpu) ELSE f1
      f3 == IF truthy(f.variant)
            THEN SelectSeq(f2, LAMBDA a : a.variant = f.variant) ELSE f2
  IN IF truthy(f.rocmVersion)
     THEN SelectSeq(f3, LAMBDA a : Str(a.rocmVersion) = f.rocmVersion)
     ELSE f3

\* a key without the gpu
platformVariantKey(a) == a.platform \o "-" \o toString(a.variant)

\* `${artifact.platform}-${artifact.gpu}-${artifact.variant}`
platformGpuVariantKey(a) == a.platform \o "-" \o a.gpu \o "-" \o toString(a.variant)

\* lines 170-183
latestPerPlatformGpuVariant(list) ==
  objectValues(groupLatest(<<>>,
    [i \in 1..Len(list) |-> [key |-> platformGpuVariantKey(list[i]), value |-> list[i]]]))

\* the whole call, as a function of its arguments
filterArtifacts(list, f) ==
  IF f.latest THEN latestPerPlatformGpuVariant(fieldFiltered(list, f))
  ELSE fieldFiltered(list, f)

---------------------------------------------------------------------------
(* Inputs of findCompatibleArtifacts *)

MaxCatalog == 3

\* an artifact as parseRocmArtifacts returns it
artifactOf(name, mtime) ==
  withMtime(parseArtifactInfo(BaseUrl \o "/" \o name, name), Num(mtime))

Gfx1100Oct20 == artifactOf("therock-dist-linux-gfx1100-all-7.10.0a20251020.tar.gz", 1)
Gfx1100Oct30 == artifactOf("therock-dist-linux-gfx1100-all-7.11.0a20251030.tar.gz", 2)
Gfx1101Oct30 == artifactOf("therock-dist-linux-gfx1101-all-7.10.0a20251030.tar.gz", 3)
Gfx110XOct25 == artifactOf("therock-dist-linux-gfx110X-all-7.9.0rc20251025.tar.gz", 4)
WinGfx1100   == artifactOf("therock-dist-windows-gfx1100-all-7.10.0a20251030.tar.gz", 5)
UpperGfx1100 == artifactOf("therock-dist-linux-GFX1100-ALL-7.10.0a20251030.tar.gz", 6)
Gfx1100NoDate == artifactOf("therock-dist-linux-gfx1100-all-7.10.0.tar.gz", 7)

ArtifactPool ==
  {Gfx1100Oct20, Gfx1100Oct30, Gfx1101Oct30, Gfx110XOct25, WinGfx1100,
   UpperGfx1100, Gfx1100NoDate}

\* a profile a caller builds with only the chip's own tag as family
OnlyGfx1100 ==
  [platform        |-> "linux",
   gpuArch         |-> Str("gfx1100"),
   rocmGpuFamilies |-> <<"gfx1100">>,
   detected        |-> TRUE]

\* the profiles of detectSystem: no GPU, an unidentified AMD GPU, chips of
\* the family table, and gfx803, which the table does not have
SystemInfos ==
  {systemInfoOf("linux", arch) :
     arch \in {Null, Str("unknown-amd"), Str("gfx1100"), Str("gfx1101"),
               Str("gfx1151"), Str("gfx803")}}
    \cup {systemInfoOf("windows", Str("gfx1100")), OnlyGfx1100}

Options(variant, rocmVersion, latest) ==
  [variant |-> variant, rocmVersion |-> rocmVersion, latest |-> latest]

NoOptions == Options(Undefined, Undefined, FALSE)
LatestOnly == Options(Undefined, Undefined, TRUE)

OptionsSet ==
  {NoOptions, LatestOnly,
   Options(Str("all"), Undefined, TRUE),
   Options(Undefined, Str("7.10.0"), TRUE)}

---------------------------------------------------------------------------
(* Specification of one call of findCompatibleArtifacts *)

Filters(platform, gpu, variant, rocmVersion, latest) ==
  [platform |-> platform, gpu |-> gpu, variant |-> variant,
   rocmVersion |-> rocmVersion, latest |-> latest]

\* the filters of src/src/pytorch-installer.js:192-206, and others
FiltersSet ==
  {Filters(Str("linux"), Undefined, Undefined, Undefined, TRUE),
   Filters(Str("windows"), Undefined, Undefined, Undefined, TRUE),
   Filters(Str("linux"), Str("gfx110X"), Undefined, Undefined, TRUE),
   Filters(Undefined, Undefined, Undefined, Undefined, TRUE),
   Filters(Undefined, Undefined, Str("all"), Str("7.10.0"), FALSE)}

---------------------------------------------------------------------------
(* Specification of one call of findCompatibleArtifacts or filterArtifacts *)

InitFilter ==
  /\ MoreIdle
  /\ catalog \in SeqsUpTo(ArtifactPool, MaxCatalog)
  /\ \/ /\ pc = "filter"
        /\ systemInfo \in SystemInfos
        /\ options \in OptionsSet
        /\ filters = Null
     \/ /\ pc = "filterArtifacts"
        /\ filters \in FiltersSet
        /\ systemInfo = Null
        /\ options = Null
  /\ compatible = <<>>
  /\ warned = FALSE
  /\ filtered = <<>>
  /\ GroupIdle
  /\ filename = ""
  /\ artifact = Null
  /\ CatalogIdle
  /\ DetectIdle

\* system-detect.js:221-259: up to the forEach of the latest collapse
FindCompatibleArtifacts ==
  /\ pc = "filter"
  /\ warned' = returnsEarly(systemInfo)
  /\ IF returnsEarly(systemInfo)
     THEN /\ compatible' = catalog
          /\ pc' = "filtered"
          /\ UNCHANGED <<pending, groupIdx, grouped>>
     ELSE IF options.latest
     THEN /\ pending' = exactFiltered(catalog, systemInfo, options)
          /\ groupIdx' = 1
          /\ grouped' = <<>>
          /\ pc' = "group"
          /\ UNCHANGED compatible
     ELSE /\ compatible' = exactFiltered(catalog, systemInfo, options)
          /\ pc' = "filtered"
          /\ UNCHANGED <<pending, groupIdx, grouped>>
  /\ UNCHANGED <<parseVars, moreVars, detectVars, catalogVars, catalog, systemInfo, options, filters, filtered>>

\* system-detect.js:261-267, one artifact
GroupArtifact ==
  /\ pc = "group"
  /\ groupIdx <= Len(pending)
  /\ grouped' = groupedPut(grouped, gpuVariantKey(pending[groupIdx]), pending[groupIdx])
  /\ groupIdx' = groupIdx + 1
  /\ UNCHANGED <<pc, parseVars, moreVars, detectVars, catalogVars, catalog, systemInfo, options, compatible,
                 warned, filters, filtered, pending>>

\* system-detect.js:269-272
GroupDone ==
  /\ pc = "group"
  /\ groupIdx > Len(pending)
  /\ compatible' = objectValues(grouped)
  /\ pc' = "filtered"
  /\ UNCHANGED <<parseVars, moreVars, detectVars, catalogVars, catalog, systemInfo, options, warned, filters,
                 filtered, pending, groupIdx, grouped>>

\* rocm-parser.js:151-172: up to the forEach of the latest collapse
FilterArtifacts ==
  /\ pc = "filterArtifacts"
  /\ IF filters.latest
     THEN /\ pending' = fieldFiltered(catalog, filters)
          /\ groupIdx' = 1
          /\ grouped' = <<>>
          /\ pc' = "groupArtifacts"
          /\ UNCHANGED filtered
     ELSE /\ filtered' = fieldFiltered(catalog, filters)
          /\ pc' = "filteredArtifacts"
          /\ UNCHANGED <<pending, groupIdx, grouped>>
  /\ UNCHANGED <<parseVars, moreVars, detectVars, catalogVars, catalog, systemInfo, options, compatible,
                 warned, filters>>

\* rocm-parser.js:174-180, one artifact
GroupFilteredArtifact ==
  /\ pc = "groupArtifacts"
  /\ groupIdx <= Len(pending)
  /\ grouped' =
       groupedPut(grouped, platformGpuVariantKey(pending[groupIdx]), pending[groupIdx])
  /\ groupIdx' = groupIdx + 1
  /\ UNCHANGED <<pc, parseVars, moreVars, detectVars, catalogVars, catalog, systemInfo, options, compatible,
                 warned, filters, filtered, pending>>

\* rocm-parser.js:182-185
GroupFilteredDone ==
  /\ pc = "groupArtifacts"
  /\ groupIdx > Len(pending)
  /\ filtered' = objectValues(grouped)
  /\ pc' = "filteredArtifacts"
  /\ UNCHANGED <<parseVars, moreVars, detectVars, catalogVars, catalog, systemInfo, options, compatible,
                 warned, filters, pending, groupIdx, grouped>>

NextFilter ==
  \/ FindCompatibleArtifacts
  \/ GroupArtifact
  \/ GroupDone
  \/ FilterArtifacts
  \/ GroupFilteredArtifact
  \/ GroupFilteredDone

SpecFilter == InitFilter /\ [][NextFilter]_vars

---------------------------------------------------------------------------
(* detectPlatform, detectGpuArch and mapDeviceIdToArch,
   src/src/system-detect.js:8-152 *)

\* what execSync does: it throws, or it returns the command's output
Throws == [threw |-> TRUE]
Output(s) == [threw |-> FALSE, output |-> s]

\* \s of a regular expression, for the characters of the outputs
Whitespace == {" ", "\t", "\n", "\r"}

\* [0-9a-f] under the flag i
IsHexChar(c) == lowerChar(c) \in Digits \cup {"a", "b", "c", "d", "e", "f"}

\* the literal lit (in lower case) is at s[i..], letter case ignored
matchAt(s, i, lit) ==
  /\ i + Len(lit) - 1 <= Len(s)
  /\ toLowerCase(SubSeq(s, i, i + Len(lit) - 1)) = lit

\* the literal lit is at s[i..]
literalAt(s, i, lit) ==
  /\ i + Len(lit) - 1 <= Len(s)
  /\ SubSeq(s, i, i + Len(lit) - 1) = lit

\* the index after the longest run of whitespace that starts at s[i]
RECURSIVE skipWhitespace(_, _)
skipWhitespace(s, i) ==
  IF i <= Len(s) /\ CharAt(s, i) \in Whitespace THEN skipWhitespace(s, i + 1) ELSE i

\* the index after the longest run of hex digits that starts at s[i]
RECURSIVE skipHex(_, _)
skipHex(s, i) ==
  IF i <= Len(s) /\ IsHexChar(CharAt(s, i)) THEN skipHex(s, i + 1) ELSE i

\* /Name:\s+(gfx[0-9a-f]+)/i matches at s[i..]
nameGfxAt(s, i) ==
  /\ matchAt(s, i, "name:")
  /\ LET j == skipWhitespace(s, i + 5)
     IN /\ j > i + 5
        /\ matchAt(s, j, "gfx")
        /\ skipHex(s, j + 3) > j + 3

\* line 31: output.match(/Name:\s+(gfx[0-9a-f]+)/i), as match[1] or null
rocminfoMatch(output) ==
  IF \E i \in 1..Len(output) : nameGfxAt(output, i)
  THEN LET i == CHOOSE k \in 1..Len(output) :
                  /\ nameGfxAt(output, k)
                  /\ \A m \in 1..(k - 1) : ~nameGfxAt(output, m)
           j == skipWhitespace(output, i + 5)
       IN Str(SubSeq(output, j, skipHex(output, j + 3) - 1))
  ELSE Null

\* line 48: /AMD|ATI/i.test(output)
amdOrAti(output) ==
  \E i \in 1..Len(output) : matchAt(output, i, "amd") \/ matchAt(output, i, "ati")

\* /\[1002:([0-9a-f]{4})\]/i matches at s[i..]
deviceIdAt(s, i) ==
  /\ literalAt(s, i, "[1002:")
  /\ i + 10 <= Len(s)
  /\ \A k \in (i + 6)..(i + 9) : IsHexChar(CharAt(s, k))
  /\ CharAt(s, i + 10) = "]"

\* line 50: output.match(/\[1002:([0-9a-f]{4})\]/i), as deviceIdMatch[1] or null
deviceIdMatch(output) ==
  IF \E i \in 1..Len(output) : deviceIdAt(output, i)
  THEN LET i == CHOOSE k \in 1..Len(output) :
                  /\ deviceIdAt(output, k)
                  /\ \A m \in 1..(k - 1) : ~deviceIdAt(output, m)
       IN Str(SubSeq(output, i + 6, i + 9))
  ELSE Null

\* lines 115-149
deviceMappings ==
  [id \in {"1586", "1587"} |-> "gfx1151"]
    @@ [id \in {"15bf", "15c8"} |-> "gfx1150"]
    @@ ("744c" :> "gfx1100") @@ ("7448" :> "gfx1101") @@ ("7478" :> "gfx1102")
    @@ [id \in {"73a5", "73bf"} |-> "gfx1030"]
    @@ ("73df" :> "gfx1031")
    @@ [id \in {"73ef", "73ff"} |-> "gfx1032"]
    @@ ("731f" :> "gfx1010") @@ ("7340" :> "gfx1012") @@ ("7360" :> "gfx1010")
    @@ ("66af" :> "gfx906") @@ ("687f" :> "gfx900") @@ ("69af" :> "gfx906")
    @@ ("738c" :> "gfx908")
    @@ [id \in {"740c", "740f"} |-> "gfx90a"]
    @@ ("7400" :> "gfx950")

\* lines 113-152: deviceMappings[deviceId] || null (no name that an object
\* inherits has four characters)
mapDeviceIdToArch(deviceId) ==
  IF deviceId \in DOMAIN deviceMappings THEN Str(deviceMappings[deviceId]) ELSE Null

\* the pieces of the patterns of gpuMappings: one of some literals, or a
\* number of digits ([0-9]+ tests as [0-9])
Lit(alts) == [t |-> "lit", alts |-> alts]
DigitRun(n) == [t |-> "digits", n |-> n]
Rule(pattern, arch) == [pattern |-> pattern, arch |-> arch]

\* lines 65-91
gpuMappings ==
  <<Rule(<<Lit({"strix "}), Lit({"point", "halo"})>>, "gfx1151"),
    Rule(<<Lit({"radeon 8"}), DigitRun(3)>>, "gfx1151"),
    Rule(<<Lit({"radeon rx 7"}), DigitRun(3)>>, "gfx1100"),
    Rule(<<Lit({"radeon 7"}), DigitRun(2), Lit({"m"})>>, "gfx1100"),
    Rule(<<Lit({"radeon rx 6"}), DigitRun(3)>>, "gfx1030"),
    Rule(<<Lit({"radeon 6"}), DigitRun(2), Lit({"m"})>>, "gfx1030"),
    Rule(<<Lit({"radeon rx 5"}), DigitRun(3)>>, "gfx1010"),
    Rule(<<Lit({"radeon 5"}), DigitRun(2), Lit({"m"})>>, "gfx1010"),
    Rule(<<Lit({"radeon vii"})>>, "gfx906"),
    Rule(<<Lit({"vega "}), DigitRun(1)>>, "gfx900"),
    Rule(<<Lit({"instinct mi300"})>>, "gfx950"),
    Rule(<<Lit({"instinct mi250"})>>, "gfx90a"),
    Rule(<<Lit({"instinct mi210"})>>, "gfx90a"),
    Rule(<<Lit({"instinct mi100"})>>, "gfx908")>>

\* the pieces match at s[i..]
RECURSIVE piecesAt(_, _, _)
piecesAt(pieces, s, i) ==
  IF pieces = <<>> THEN TRUE
  ELSE IF Head(pieces).t = "lit"
  THEN \E alt \in Head(pieces).alts :
         literalAt(s, i, alt) /\ piecesAt(Tail(pieces), s, i + Len(alt))
  ELSE /\ i + Head(pieces).n - 1 <= Len(s)
       /\ \A k \in i..(i + Head(pieces).n - 1) : CharAt(s, k) \in Digits
       /\ piecesAt(Tail(pieces), s, i + Head(pieces).n)

\* line 94: mapping.pattern.test(gpuInfo)
patternTest(pattern, gpuInfo) == \E i \in 1..Len(gpuInfo) : piecesAt(pattern, gpuInfo, i)

\* the rules whose pattern matches
matching(gpuInfo) ==
  {k \in 1..Len(gpuMappings) : patternTest(gpuMappings[k].pattern, gpuInfo)}

\* the arch of the last rule that matches
lastMatchingArch(gpuInfo) ==
  IF matching(gpuInfo) = {} THEN Str("unknown-amd")
  ELSE Str(gpuMappings[CHOOSE k \in matching(gpuInfo) :
                         \A m \in matching(gpuInfo) : m <= k].arch)

\* lines 93-99: the arch of the first rule that matches, or the sentinel
firstMatchingArch(gpuInfo) ==
  IF matching(gpuInfo) = {} THEN Str("unknown-amd")
  ELSE Str(gpuMappings[CHOOSE k \in matching(gpuInfo) :
                         \A m \in matching(gpuInfo) : k <= m].arch)

\* how a block of detectGpuArch ends: with a return, or at the next block,
\* or with an exception that leaves the function
Return(v) == [t |-> "return", v |-> v]
Continue == [t |-> "continue"]
Uncaught == [t |-> "throw"]

\* Method 1 without its catch
methodOneUncaught(result) ==
  IF result.threw THEN Uncaught
  ELSE IF rocminfoMatch(result.output) # Null
  THEN Return(Str(toLowerCase(rocminfoMatch(result.output).v)))
  ELSE Continue

\* lines 26-37: Method 1
methodOne(result) ==
  IF result.threw THEN Continue
  ELSE IF rocminfoMatch(result.output) # Null
  THEN Return(Str(toLowerCase(rocminfoMatch(result.output).v)))
  ELSE Continue

\* every platform taken as supported
isSupportedAlways(name) == TRUE

\* lines 11-15: the platforms detectPlatform returns for
isSupported(name) == name \in {"linux", "win32"}

\* lines 8-18: detectPlatform, for the platforms it supports
platformOf(name) == IF name = "win32" THEN "windows" ELSE name

---------------------------------------------------------------------------
(* Inputs of detectSystem: the host platform and what the two commands do *)

OsPlatforms == {"linux", "win32", "darwin"}

\* rocminfo with a CPU agent before the GPU agent
RocminfoGfx1100 ==
  Output("Agent 1\n  Name:  AMD Ryzen 9 7950X\nAgent 2\n  Name:                    gfx1100\n")
\* the tag in upper case
RocminfoUpper == Output("  Name:\tGFX90A\n  Marketing Name: AMD Instinct MI210\n")
\* no whitespace after the colon, and no hex digit after gfx
RocminfoNoMatch == Output("  Name:gfx1100\n  Name: gfx\n")
RocminfoNoDriver == Output("ROCk module is NOT loaded, possibly no GPU devices\n")

RocminfoResults ==
  {Throws, RocminfoGfx1100, RocminfoUpper, RocminfoNoMatch, RocminfoNoDriver}

AmdVendor == "Advanced Micro Devices, Inc. [AMD/ATI] "

\* lines of lspci -nn that grep keeps
LspciNavi31 ==
  Output("03:00.0 VGA compatible controller [0300]: " \o AmdVendor
           \o "Navi 31 [Radeon RX 7900 XT] [1002:744c] (rev c8)\n")
\* a device ID of the table with the marketing name of another chip
LspciStrixHalo ==
  Output("c5:00.0 Display controller [0380]: " \o AmdVendor
           \o "Radeon RX 7900 [1002:1586]\n")
\* the device ID in upper case
LspciUpperId == Output("3D controller: " \o AmdVendor \o "Vega 20 [1002:66AF]\n")
\* device IDs the table does not have, with names of the rules
LspciStrixName ==
  Output("Display controller: " \o AmdVendor \o "Strix Halo [Radeon 8060S] [1002:150e]\n")
LspciTwoNames ==
  Output("VGA compatible controller: " \o AmdVendor
           \o "Radeon RX 6800 / Radeon RX 7600 [1002:73aa]\n")
LspciVega == Output("Display controller: " \o AmdVendor \o "Vega 10 XL [1002:6860]\n")
LspciMobile == Output("Display controller: " \o AmdVendor \o "Radeon 780M [1002:15bb]\n")
\* an AMD device that neither the table nor a rule knows
LspciUnknownAmd == Output("Display controller: " \o AmdVendor \o "Device [1002:ffff]\n")
\* two AMD devices: the first ID is not in the table, the second is
LspciTwoDevices ==
  Output("VGA compatible controller: " \o AmdVendor \o "Device [1002:164e]\n"
           \o "VGA compatible controller: " \o AmdVendor \o "Navi 32 [1002:7448]\n")
\* listings without an AMD device
LspciNvidia ==
  Output("01:00.0 VGA compatible controller [0300]: NVIDIA Corporation AD102 [10de:2684]\n")
LspciVirtio == Output("00:01.0 Display controller [0380]: Red Hat, Inc. Virtio GPU [1af4:1050]\n")

\* grep exits with 1 when no line is kept, and lspci may be missing: both throw
LspciResults ==
  {Throws, LspciNavi31, LspciStrixHalo, LspciUpperId, LspciStrixName, LspciTwoNames,
   LspciVega, LspciMobile, LspciUnknownAmd, LspciTwoDevices, LspciNvidia, LspciVirtio}

---------------------------------------------------------------------------
(* Specification of one call of detectSystem *)

InitDetect ==
  /\ MoreIdle
  /\ pc = "detectPlatform"
  /\ osPlatform \in OsPlatforms
  /\ rocminfo \in RocminfoResults
  /\ lspci \in LspciResults
  /\ lspciRan = FALSE
  /\ gpuArch = Undefined
  /\ error = Null
  /\ filename = ""
  /\ artifact = Null
  /\ CatalogIdle
  /\ FilterIdle

\* lines 197, 8-18: detectPlatform
DetectPlatform ==
  /\ pc = "detectPlatform"
  /\ IF isSupported(osPlatform)
     THEN pc' = "rocminfo" /\ UNCHANGED error
     ELSE /\ error' = Str("Unsupported platform: " \o osPlatform)
          /\ pc' = "thrown"
  /\ UNCHANGED <<parseVars, moreVars, catalogVars, filterVars, osPlatform, rocminfo, lspci,
                 lspciRan, gpuArch>>

\* lines 26-37: Method 1
RunRocminfo ==
  /\ pc = "rocminfo"
  /\ LET end == methodOne(rocminfo)
     IN CASE end.t = "return" ->
               gpuArch' = end.v /\ pc' = "mapArch" /\ UNCHANGED error
          [] end.t = "continue" ->
               pc' = "lspci" /\ UNCHANGED <<gpuArch, error>>
          [] end.t = "throw" ->
               error' = Str("rocminfo") /\ pc' = "thrown" /\ UNCHANGED gpuArch
  /\ UNCHANGED <<parseVars, moreVars, catalogVars, filterVars, osPlatform, rocminfo, lspci, lspciRan>>

\* lines 40-48 and 100-105: the command of Method 2 and the AMD/ATI test
RunLspci ==
  /\ pc = "lspci"
  /\ lspciRan' = TRUE
  /\ IF lspci.threw \/ ~amdOrAti(lspci.output)
     THEN gpuArch' = Null /\ pc' = "mapArch"
     ELSE pc' = "deviceId" /\ UNCHANGED gpuArch
  /\ UNCHANGED <<parseVars, moreVars, catalogVars, filterVars, osPlatform, rocminfo, lspci, error>>

\* lines 50-59: the device ID
LookupDeviceId ==
  /\ pc = "deviceId"
  /\ LET deviceId == deviceIdMatch(lspci.output)
         arch == IF deviceId # Null THEN mapDeviceIdToArch(toLowerCase(deviceId.v))
                 ELSE Null
     IN IF truthy(arch)
        THEN gpuArch' = arch /\ pc' = "mapArch"
        ELSE pc' = "gpuMappings" /\ UNCHANGED gpuArch
  /\ UNCHANGED <<parseVars, moreVars, catalogVars, filterVars, osPlatform, rocminfo, lspci,
                 lspciRan, error>>

\* lines 62-99: the name rules
MatchGpuName ==
  /\ pc = "gpuMappings"
  /\ gpuArch' = firstMatchingArch(toLowerCase(lspci.output))
  /\ pc' = "mapArch"
  /\ UNCHANGED <<parseVars, moreVars, catalogVars, filterVars, osPlatform, rocminfo, lspci,
                 lspciRan, error>>

\* lines 199-211: the profile
ReturnSystemInfo ==
  /\ pc = "mapArch"
  /\ systemInfo' = systemInfoOf(platformOf(osPlatform), gpuArch)
  /\ pc' = "detected"
  /\ UNCHANGED <<parseVars, moreVars, catalogVars, detectVars, catalog, options, compatible,
                 warned, filters, filtered, pending, groupIdx, grouped>>

NextDetect ==
  \/ DetectPlatform
  \/ RunRocminfo
  \/ RunLspci
  \/ LookupDeviceId
  \/ MatchGpuName
  \/ ReturnSystemInfo

SpecDetect == InitDetect /\ [][NextDetect]_vars

---------------------------------------------------------------------------
(* Specification of one call of mapArchToRocmGpu *)

MaxArchLen == 4

\* the characters after gfx in the keys of archMappings
ArchChars == {"0", "1", "2", "3", "4", "5", "6", "8", "9", "a"}

\* gfx followed by MaxArchLen - 1 or MaxArchLen of these characters
ArchStrings ==
  {"gfx" \o concat(w) :
     w \in [1..(MaxArchLen - 1) -> ArchChars] \cup [1..MaxArchLen -> ArchChars]}

\* absent values, the sentinel, keys in another letter case, other names
OtherArchs ==
  {Null, Undefined, Str(""), Str("unknown-amd"), Str("GFX1100"), Str("Gfx1151"),
   Str("gfx90A"), Str("gfx110X"), Str("gfx110x"), Str("gfx"), Str("constructor"),
   Str("toString"), Str("__proto__")}

InitMapArch ==
  /\ pc = "mapArchToRocmGpu"
  /\ detectedArch \in {Str(a) : a \in ArchStrings} \cup OtherArchs
  /\ archFamilies = Null
  /\ RecommendIdle
  /\ SortIdle
  /\ InstallIdle
  /\ filename = ""
  /\ artifact = Null
  /\ CatalogIdle
  /\ FilterIdle
  /\ DetectIdle

MapArchToRocmGpu ==
  /\ pc = "mapArchToRocmGpu"
  /\ archFamilies' = mapArchToRocmGpu(detectedArch)
  /\ pc' = "mapped"
  /\ UNCHANGED <<parseVars, catalogVars, filterVars, detectVars, detectedArch,
                 recommendVars, sortVars, installVars>>

NextMapArch == MapArchToRocmGpu

SpecMapArch == InitMapArch /\ [][NextMapArch]_vars

---------------------------------------------------------------------------
(* The recommendation of main, src/src/detect-and-list.js:29-100 *)

\* a.localeCompare(b) on strings of digits, '.' and '-': the collation
\* orders these characters as their code units do
localeCompare(a, b) ==
  IF stringGreater(a, b) THEN 1 ELSE IF stringGreater(b, a) THEN -1 ELSE 0

\* v || ''
orEmpty(v) == IF truthy(v) THEN v.v ELSE ""

\* the comparator of lines 84-89
compareStable(a, b) ==
  IF a.rocmVersion # b.rocmVersion
  THEN localeCompare(b.rocmVersion, a.rocmVersion)
  ELSE localeCompare(orEmpty(b.buildDate), orEmpty(a.buildDate))

\* line 83: the builds the filter keeps
notAdhoc(list) == SelectSeq(list, LAMBDA a : ~includes(a.buildTag, "ADHOCBUILD"))

\* x put into a sorted list behind every element it does not precede
RECURSIVE insertStable(_, _)
insertStable(x, sorted) ==
  IF sorted = <<>> THEN <<x>>
  ELSE IF compareStable(x, Head(sorted)) < 0 THEN <<x>> \o sorted
  ELSE <<Head(sorted)>> \o insertStable(x, Tail(sorted))

\* Array.prototype.sort with the comparator of lines 84-89: a stable sort
RECURSIVE sortStable(_)
sortStable(list) ==
  IF list = <<>> THEN <<>>
  ELSE insertStable(list[Len(list)], sortStable(SubSeq(list, 1, Len(list) - 1)))

\* lines 82-90: element 0 of the sorted array, undefined when it is empty
latestStableOf(list) ==
  LET sorted == sortStable(notAdhoc(list))
  IN IF sorted = <<>> THEN Undefined ELSE sorted[1]

---------------------------------------------------------------------------
(* Inputs of main *)

MaxBuilds == 3

Adhoc1151 == artifactOf("therock-dist-linux-gfx1151-ADHOCBUILD-7.0.0rc20250625.tar.gz", 1)
Gfx1151Rc79 == artifactOf("therock-dist-linux-gfx1151-7.9.0rc20251001.tar.gz", 2)
Gfx1151Oct20 == artifactOf("therock-dist-linux-gfx1151-7.10.0a20251020.tar.gz", 3)
Gfx1151Oct30 == artifactOf("therock-dist-linux-gfx1151-7.10.0a20251030.tar.gz", 4)
Gfx1151NoDate == artifactOf("therock-dist-linux-gfx1151-7.10.0.tar.gz", 5)

BuildPool ==
  {Adhoc1151, Gfx1151Rc79, Gfx1151Oct20, Gfx1151Oct30, Gfx1151NoDate, Gfx1100Oct20}

DetectedSystems ==
  {systemInfoOf("linux", Str("gfx1151")), systemInfoOf("linux", Str("gfx1100")),
   systemInfoOf("linux", Str("unknown-amd")), systemInfoOf("linux", Null)}

---------------------------------------------------------------------------
(* Specification of one run of main *)

InitRecommend ==
  /\ pc = "main"
  /\ catalog \in SeqsUpTo(BuildPool, MaxBuilds)
  /\ systemInfo \in DetectedSystems
  /\ options = NoOptions
  /\ compatible = <<>>
  /\ warned = FALSE
  /\ filters = Null
  /\ filtered = <<>>
  /\ GroupIdle
  /\ latestStable = Undefined
  /\ MapIdle
  /\ SortIdle
  /\ InstallIdle
  /\ filename = ""
  /\ artifact = Null
  /\ CatalogIdle
  /\ DetectIdle

\* lines 29-46: the catalog is fetched; an undetected GPU or an empty
\* compatible list ends the run
ListCompatible ==
  /\ pc = "main"
  /\ IF ~systemInfo.detected
     THEN /\ pc' = "returned"
          /\ UNCHANGED compatible
     ELSE /\ compatible' = findCompatibleArtifacts(catalog, systemInfo, options)
          /\ pc' = IF Len(compatible') = 0 THEN "returned" ELSE "recommend"
  /\ UNCHANGED <<parseVars, catalogVars, detectVars, mapVars, recommendVars,
                 sortVars, installVars, catalog, systemInfo, options, warned, filters, filtered,
                 pending, groupIdx, grouped>>

\* lines 81-100: the recommendation
Recommend ==
  /\ pc = "recommend"
  /\ latestStable' = latestStableOf(compatible)
  /\ pc' = "recommended"
  /\ UNCHANGED <<parseVars, catalogVars, filterVars, detectVars, mapVars,
                 sortVars, installVars>>

NextRecommend == ListCompatible \/ Recommend

SpecRecommend == InitRecommend /\ [][NextRecommend]_vars

---------------------------------------------------------------------------
(* parsePackageName, src/src/pytorch-parser.js:94-134 *)

CharsOf(s) == {CharAt(s, i) : i \in 1..Len(s)}

\* [a-zA-Z0-9_] and [0-9.]
WordChars ==
  CharsOf("abcdefghijklmnopqrstuvwxyzABCDEFGHIJKLMNOPQRSTUVWXYZ0123456789_")
VersionChars == Digits \cup {"."}

\* the positions of '-' in s, in increasing order
RECURSIVE dashesFrom(_, _)
dashesFrom(s, i) ==
  IF i > Len(s) THEN <<>>
  ELSE IF CharAt(s, i) = "-" THEN <<i>> \o dashesFrom(s, i + 1)
  ELSE dashesFrom(s, i + 1)

\* the longest run of characters of a set that starts at position i
RECURSIVE runAt(_, _, _)
runAt(s, i, set) ==
  IF i <= Len(s) /\ CharAt(s, i) \in set
  THEN CharAt(s, i) \o runAt(s, i + 1, set)
  ELSE ""

\* /^([a-zA-Z0-9_]+)-([^-]+)-([^-]+)-([^-]+)-([^.]+)\.whl$/: the first four
\* groups hold no '-', so the first four '-' separate them
wheelMatch(name) ==
  LET body == SubSeq(name, 1, Len(name) - 4)
      d == dashesFrom(body, 1)
      g1 == SubSeq(body, 1, d[1] - 1)
      g2 == SubSeq(body, d[1] + 1, d[2] - 1)
      g3 == SubSeq(body, d[2] + 1, d[3] - 1)
      g4 == SubSeq(body, d[3] + 1, d[4] - 1)
      g5 == SubSeq(body, d[4] + 1, Len(body))
  IN IF /\ endsWith(name, ".whl")
        /\ Len(d) >= 4
        /\ g1 # "" /\ CharsOf(g1) \subseteq WordChars
        /\ g2 # "" /\ g3 # "" /\ g4 # ""
        /\ g5 # "" /\ "." \notin CharsOf(g5)
     THEN [g1 |-> g1, g2 |-> g2, g3 |-> g3, g4 |-> g4, g5 |-> g5]
     ELSE Null

\* the leftmost place where lit is followed by a character of set
firstAfter(s, lit, set) ==
  LET hits == {i \in 1..Len(s) :
                 /\ i + Len(lit) <= Len(s)
                 /\ SubSeq(s, i, i + Len(lit) - 1) = lit
                 /\ CharAt(s, i + Len(lit)) \in set}
  IN IF hits = {} THEN 0 ELSE CHOOSE i \in hits : \A j \in hits : i <= j

\* version.match(/\+rocm([0-9.]+)/), group 1 or null
rocmMatch(version) ==
  LET i == firstAfter(version, "+rocm", VersionChars)
  IN IF i = 0 THEN Null ELSE Str(runAt(version, i + 5, VersionChars))

\* version.match(/^([0-9.]+)/), group 1 or the version itself
baseVersionOf(version) ==
  IF runAt(version, 1, VersionChars) # ""
  THEN runAt(version, 1, VersionChars) ELSE version

\* version.match(/\.dev([0-9]+)/), group 1 or null
devMatch(version) ==
  LET i == firstAfter(version, ".dev", Digits)
  IN IF i = 0 THEN Null ELSE Str(runAt(version, i + 4, Digits))

\* pythonVersion.match(/cp([0-9])([0-9]+)/) formatted, or the tag itself
pythonVersionOf(tag) ==
  LET hits == {i \in 1..Len(tag) :
                 /\ i + 1 <= Len(tag)
                 /\ SubSeq(tag, i, i + 1) = "cp"
                 /\ Len(runAt(tag, i + 2, Digits)) >= 2}
      i == CHOOSE k \in hits : \A j \in hits : k <= j
      digits == runAt(tag, i + 2, Digits)
  IN IF hits = {} THEN tag
     ELSE CharAt(digits, 1) \o "." \o SubSeq(digits, 2, Len(digits))

parsePackageName(name) ==
  LET m == wheelMatch(name)
  IN IF m = Null THEN Null
     ELSE [package       |-> m.g1,
           version       |-> m.g2,
           baseVersion   |-> baseVersionOf(m.g2),
           rocmVersion   |-> rocmMatch(m.g2),
           devDate       |-> devMatch(m.g2),
           pythonVersion |-> pythonVersionOf(m.g3),
           pythonTag     |-> m.g3,
           abi           |-> m.g4,
           platform      |-> m.g5]

\* pytorch-parser.js:33-41: the packages of a listing's wheel files
RECURSIVE packagesOf(_)
packagesOf(names) ==
  IF names = <<>> THEN <<>>
  ELSE LET info == parsePackageName(Head(names))
       IN (IF info = Null THEN <<>> ELSE <<info>>) \o packagesOf(Tail(names))

---------------------------------------------------------------------------
(* compareVersions and the comparator of groupPackagesByName,
   src/src/pytorch-parser.js:142-200 *)

\* s.split('.')
RECURSIVE splitDots(_)
splitDots(s) ==
  IF "." \in CharsOf(s)
  THEN LET i == CHOOSE k \in 1..Len(s) :
                  /\ CharAt(s, k) = "."
                  /\ \A j \in 1..(k - 1) : CharAt(s, j) # "."
       IN <<SubSeq(s, 1, i - 1)>> \o splitDots(SubSeq(s, i + 1, Len(s)))
  ELSE <<s>>

DigitValue == [c \in Digits |-> CHOOSE n \in 0..9 : CharAt("0123456789", n + 1) = c]

RECURSIVE valueOfDigits(_)
valueOfDigits(digits) ==
  IF digits = "" THEN 0
  ELSE 10 * valueOfDigits(SubSeq(digits, 1, Len(digits) - 1))
       + DigitValue[CharAt(digits, Len(digits))]

\* parseInt(x) || 0: an optional sign, then the leading digits; NaN, when
\* there are none, gives 0
parseIntOrZero(x) ==
  LET signed == x # "" /\ CharAt(x, 1) \in {"+", "-"}
      digits == runAt(x, IF signed THEN 2 ELSE 1, Digits)
      n == valueOfDigits(digits)
  IN IF signed /\ CharAt(x, 1) = "-" THEN 0 - n ELSE n

\* lines 142-155
compareVersions(versionA, versionB) ==
  LET partsA == splitDots(versionA)
      partsB == splitDots(versionB)
      at(parts, i) == IF i <= Len(parts) THEN parseIntOrZero(parts[i]) ELSE 0
      n == IF Len(partsA) > Len(partsB) THEN Len(partsA) ELSE Len(partsB)
      differ == {i \in 1..n : at(partsA, i) # at(partsB, i)}
      first == CHOOSE i \in differ : \A j \in differ : i <= j
  IN IF differ = {} THEN 0
     ELSE IF at(partsA, first) > at(partsB, first) THEN 1 ELSE -1

\* the characters of wheel versions as the two collations of node order
\* them: the ICU root collation (punctuation, symbols, digits, letters) and,
\* in a build without Intl, the code units
IcuOrder == "_-.+0123456789abcdefghijklmnopqrstuvwxyz"
UnitOrder == "+-.0123456789_abcdefghijklmnopqrstuvwxyz"

Collators == {"icu", "units"}

rankIn(order, c) == CHOOSE i \in 1..Len(order) : CharAt(order, i) = c

RECURSIVE greaterIn(_, _, _)
greaterIn(order, a, b) ==
  IF a = "" THEN FALSE
  ELSE IF b = "" THEN TRUE
  ELSE IF Head(a) = Head(b) THEN greaterIn(order, Tail(a), Tail(b))
  ELSE rankIn(order, CharAt(a, 1)) > rankIn(order, CharAt(b, 1))

\* a.localeCompare(b) under a collation
localeCompareIn(coll, a, b) ==
  LET order == IF coll = "icu" THEN IcuOrder ELSE UnitOrder
  IN IF greaterIn(order, a, b) THEN 1 ELSE IF greaterIn(order, b, a) THEN -1 ELSE 0

\* lines 174-196: the comparator passed to sort
comparePackages(coll, a, b) ==
  LET versionCompare == compareVersions(b.baseVersion, a.baseVersion)
      rocmCompare == compareVersions(b.rocmVersion.v, a.rocmVersion.v)
  IN IF versionCompare # 0 THEN versionCompare
     ELSE IF truthy(a.rocmVersion) /\ truthy(b.rocmVersion) /\ rocmCompare # 0
     THEN rocmCompare
     ELSE IF truthy(a.devDate) /\ truthy(b.devDate)
     THEN localeCompareIn(coll, b.devDate.v, a.devDate.v)
     ELSE localeCompareIn(coll, b.version, a.version)

---------------------------------------------------------------------------
(* Inputs of groupPackagesByName *)

MaxPackages == 3

wheelOf(package, version) == package \o "-" \o version \o "-cp313-cp313-linux_x86_64.whl"

TorchVersions ==
  {"2.7.0", "2.7.0+rocm6.3", "2.7+rocm6.10",
   "2.7.0.dev20250101", "2.7.0.dev20250201+rocm6.3", "2.7.0.dev20250101+rocm6.4",
   "2.10.0a0+rocm7.10.0a20251015"}

WheelNames ==
  {wheelOf("torch", v) : v \in TorchVersions}
    \cup {wheelOf("torchvision", "0.22.0+rocm6.3"), "torch-2.7.0.tar.gz"}

---------------------------------------------------------------------------
(* Specification of one call of groupPackagesByName *)

InitSort ==
  /\ pc = "parsePackages"
  /\ collator \in Collators
  /\ wheels \in [1..MaxPackages -> WheelNames]
  /\ packages = <<>>
  /\ compared = <<>>
  /\ MapIdle
  /\ RecommendIdle
  /\ InstallIdle
  /\ filename = ""
  /\ artifact = Null
  /\ CatalogIdle
  /\ FilterIdle
  /\ DetectIdle

\* lines 22-46: the listing's wheel files become packages
ParsePackages ==
  /\ pc = "parsePackages"
  /\ packages' = packagesOf(wheels)
  /\ pc' = "groupPackagesByName"
  /\ UNCHANGED <<parseVars, catalogVars, filterVars, detectVars, mapVars,
                 recommendVars, installVars, collator, wheels, compared>>

\* lines 162-200: what the comparator returns for each two packages of one
\* name, in either argument order
GroupPackagesByName ==
  /\ pc = "groupPackagesByName"
  /\ compared' =
       [ij \in {q \in (1..Len(packages)) \X (1..Len(packages)) :
                  packages[q[1]].package = packages[q[2]].package} |->
          comparePackages(collator, packages[ij[1]], packages[ij[2]])]
  /\ pc' = "grouped"
  /\ UNCHANGED <<parseVars, catalogVars, filterVars, detectVars, mapVars,
                 recommendVars, installVars, collator, wheels, packages>>

NextSort == ParsePackages \/ GroupPackagesByName

SpecSort == InitSort /\ [][NextSort]_vars

---------------------------------------------------------------------------
(* installRocm, src/unnamed/part_001:96-213 *)

(* What a path holds is a string: "missing" when nothing is there;       *)
(* installDir holds "previous" (the installation found by the call),     *)
(* "partial" (some of the new files), "new" (the new installation) or    *)
(* "newWithInfo" (with .info/build-info.json); tempDir holds "empty",    *)
(* "single" (one directory) or "many" (several entries).                 *)

\* fs.existsSync(path)
existsSync(content) == content # "missing"

\* lines 126-133
extractedPathOf(temp) == IF temp = "single" THEN "subdir" ELSE "tempDir"

\* what a failed install command of lines 152-164 can leave at installDir:
\* nothing, a part of the files, or all of them
FailedInstallLeaves == {"missing", "partial", "new"}

\* the catch block, lines 205-212: the temporary directory is removed and
\* false is returned
Catch ==
  /\ tempDir' = "missing"
  /\ pc' = "returnedFalse"

---------------------------------------------------------------------------
(* Inputs of installRocm *)

Archives == {"single", "many", "empty"}
BuildInfos == {Null, Gfx1151Oct30}

---------------------------------------------------------------------------
(* Specification of one call of installRocm *)

InitInstall ==
  /\ pc = "installRocm"
  /\ tarPath \in Archives
  /\ needsSudo \in BOOLEAN
  /\ buildInfo \in BuildInfos
  /\ installDir \in {"previous", "missing"}
  /\ backupDir = "missing"
  /\ tempDir = "missing"
  /\ extractedPath = ""
  /\ MapIdle
  /\ RecommendIdle
  /\ SortIdle
  /\ filename = ""
  /\ artifact = Null
  /\ CatalogIdle
  /\ FilterIdle
  /\ DetectIdle

\* lines 108-109: mkdirSync runs before the try block; when it throws the
\* promise is rejected
MakeTempDir ==
  /\ pc = "installRocm"
  /\ \/ /\ tempDir' = "empty"
        /\ pc' = "extract"
     \/ /\ pc' = "rejected"
        /\ UNCHANGED tempDir
  /\ UNCHANGED <<parseVars, catalogVars, filterVars, detectVars, mapVars,
                 recommendVars, sortVars, tarPath, needsSudo, buildInfo,
                 installDir, backupDir, extractedPath>>

\* lines 113-116
Extract ==
  /\ pc = "extract"
  /\ \/ /\ tempDir' = tarPath
        /\ pc' = "readdir"
     \/ Catch
  /\ UNCHANGED <<parseVars, catalogVars, filterVars, detectVars, mapVars,
                 recommendVars, sortVars, tarPath, needsSudo, buildInfo,
                 installDir, backupDir, extractedPath>>

\* lines 119-134
CheckExtracted ==
  /\ pc = "readdir"
  /\ IF tempDir = "empty"
     THEN /\ Catch
          /\ UNCHANGED extractedPath
     ELSE /\ extractedPath' = extractedPathOf(tempDir)
          /\ pc' = "backup"
          /\ UNCHANGED tempDir
  /\ UNCHANGED <<parseVars, catalogVars, filterVars, detectVars, mapVars,
                 recommendVars, sortVars, tarPath, needsSudo, buildInfo,
                 installDir, backupDir>>

\* lines 137-146: mv, with sudo or without, renames installDir to a sibling
\* path or fails leaving it in place
Backup ==
  /\ pc = "backup"
  /\ IF existsSync(installDir)
     THEN \/ /\ backupDir' = installDir
             /\ installDir' = "missing"
             /\ pc' = "install"
             /\ UNCHANGED tempDir
          \/ /\ Catch
             /\ UNCHANGED <<installDir, backupDir>>
     ELSE /\ pc' = "install"
          /\ UNCHANGED <<installDir, backupDir, tempDir>>
  /\ UNCHANGED <<parseVars, catalogVars, filterVars, detectVars, mapVars,
                 recommendVars, sortVars, tarPath, needsSudo, buildInfo,
                 extractedPath>>

\* lines 149-164
Install ==
  /\ pc = "install"
  /\ \/ /\ installDir' = "new"
        /\ tempDir' = IF extractedPath = "subdir" THEN "empty" ELSE tempDir
        /\ pc' = "chmod"
     \/ /\ installDir' \in FailedInstallLeaves
        /\ Catch
  /\ UNCHANGED <<parseVars, catalogVars, filterVars, detectVars, mapVars,
                 recommendVars, sortVars, tarPath, needsSudo, buildInfo,
                 backupDir, extractedPath>>

\* lines 167-170
Chmod ==
  /\ pc = "chmod"
  /\ IF needsSudo
     THEN \/ /\ pc' = "metadata"
             /\ UNCHANGED tempDir
          \/ Catch
     ELSE /\ pc' = "metadata"
          /\ UNCHANGED tempDir
  /\ UNCHANGED <<parseVars, catalogVars, filterVars, detectVars, mapVars,
                 recommendVars, sortVars, tarPath, needsSudo, buildInfo,
                 installDir, backupDir, extractedPath>>

\* lines 173-197
SaveMetadata ==
  /\ pc = "metadata"
  /\ IF buildInfo # Null
     THEN \/ /\ installDir' = "newWithInfo"
             /\ pc' = "complete"
             /\ UNCHANGED tempDir
          \/ /\ Catch
             /\ UNCHANGED installDir
     ELSE /\ pc' = "complete"
          /\ UNCHANGED <<installDir, tempDir>>
  /\ UNCHANGED <<parseVars, catalogVars, filterVars, detectVars, mapVars,
                 recommendVars, sortVars, tarPath, needsSudo, buildInfo,
                 backupDir, extractedPath>>

\* lines 199-204
Complete ==
  /\ pc = "complete"
  /\ tempDir' = "missing"
  /\ pc' = "returnedTrue"
  /\ UNCHANGED <<parseVars, catalogVars, filterVars, detectVars, mapVars,
                 recommendVars, sortVars, tarPath, needsSudo, buildInfo,
                 installDir, backupDir, extractedPath>>

NextInstall ==
  \/ MakeTempDir
  \/ Extract
  \/ CheckExtracted
  \/ Backup
  \/ Install
  \/ Chmod
  \/ SaveMetadata
  \/ Complete

SpecInstall == InitInstall /\ [][NextInstall]_vars

---------------------------------------------------------------------------
(* Properties of findCompatibleArtifacts and filterArtifacts *)

\* the stepwise calls return what the functions of their arguments give
StepsAgree ==
  /\ pc = "filtered" => compatible = findCompatibleArtifacts(catalog, systemInfo, options)
  /\ pc = "filteredArtifacts" => filtered = filterArtifacts(catalog, filters)

\* s is a substring of g when letter case is ignored
SubstringIgnoringCase(s, g) ==
  \E k \in 0..(Len(g) - Len(s)) :
    \A j \in 1..Len(s) : lowerChar(CharAt(s, j)) = lowerChar(CharAt(g, k + j))

\* the family test as the spec states it
PassesFamilyTest(a, families) ==
  \E i \in 1..Len(families) :
    a.gpu = families[i] \/ SubstringIgnoringCase(families[i], a.gpu)

InSeq(x, list) == \E i \in 1..Len(list) : list[i] = x

\* C9: with a detected GPU and a non-empty family set, an artifact of the
\* queried platform passes the family test exactly when its gpu is one of
\* the family tags or a family tag is a substring of it, case ignored: the
\* result holds only such artifacts, and without options all of them, in the
\* catalog's order.
C9_FamilyTest ==
  (pc = "filtered" /\ systemInfo.detected /\ Len(systemInfo.rocmGpuFamilies) > 0)
    => /\ \A i \in 1..Len(compatible) :
            /\ compatible[i].platform = systemInfo.platform
            /\ PassesFamilyTest(compatible[i], systemInfo.rocmGpuFamilies)
       /\ options = NoOptions =>
            /\ \A i \in 1..Len(catalog) :
                 (/\ catalog[i].platform = systemInfo.platform
                  /\ PassesFamilyTest(catalog[i], systemInfo.rocmGpuFamilies))
                   <=> InSeq(catalog[i], compatible)
            /\ \E pos \in [1..Len(compatible) -> 1..Len(catalog)] :
                 /\ \A i \in 1..Len(compatible) : catalog[pos[i]] = compatible[i]
                 /\ \A i, j \in 1..Len(compatible) : i < j => pos[i] < pos[j]

\* an artifact tagged GFX1100 passed for the families of gfx1100 while one
\* tagged gfx1101 did not
C9_Witness ==
  /\ pc = "filtered"
  /\ options = NoOptions
  /\ systemInfo = systemInfoOf("linux", Str("gfx1100"))
  /\ InSeq(UpperGfx1100, compatible)
  /\ InSeq(Gfx1101Oct30, catalog)
  /\ ~InSeq(Gfx1101Oct30, compatible)

\* C10: for platform linux, families gfx110X and gfx1100 and latest = true, a
\* catalog of the two gfx1100 artifacts of 2025-10-20 and 2025-10-30 and one
\* gfx1101 artifact gives exactly the 2025-10-30 gfx1100 artifact and the
\* gfx1101 artifact.
C10_WildcardScenario ==
  (/\ pc = "filtered"
   /\ systemInfo.platform = "linux"
   /\ systemInfo.detected
   /\ systemInfo.rocmGpuFamilies = <<"gfx110X", "gfx1100">>
   /\ options = LatestOnly
   /\ Len(catalog) = 3
   /\ {catalog[i] : i \in 1..3} = {Gfx1100Oct20, Gfx1100Oct30, Gfx1101Oct30})
    => /\ Len(compatible) = 2
       /\ {compatible[i] : i \in 1..2} = {Gfx1100Oct30, Gfx1101Oct30}

HexDigits == Digits \cup {"a", "b", "c", "d", "e", "f"}

\* a family tag that ends in the wildcard letter, and a chip it stands for
IsWildcard(tag) == Len(tag) > 1 /\ CharAt(tag, Len(tag)) = "X"
MemberOf(chip, tag) ==
  /\ IsWildcard(tag)
  /\ Len(chip) = Len(tag)
  /\ SubSeq(chip, 1, Len(chip) - 1) = SubSeq(tag, 1, Len(tag) - 1)
  /\ CharAt(chip, Len(chip)) \in HexDigits

\* C11: with a detected GPU and no options, an artifact of the queried
\* platform whose gpu is a wildcard family tag is returned whenever the
\* family set names one of the chips the wildcard stands for.
C11_WildcardArtifactPasses ==
  (pc = "filtered" /\ systemInfo.detected /\ options = NoOptions)
    => \A i \in 1..Len(catalog) :
         (/\ catalog[i].platform = systemInfo.platform
          /\ \E f \in 1..Len(systemInfo.rocmGpuFamilies) :
               MemberOf(systemInfo.rocmGpuFamilies[f], catalog[i].gpu))
           => InSeq(catalog[i], compatible)

CollapsedCompatible == pc = "filtered" /\ ~returnsEarly(systemInfo) /\ options.latest

\* the call of filterArtifacts ran the latest collapse
CollapsedFiltered == pc = "filteredArtifacts" /\ filters.latest

\* result holds one artifact for each group of the survivors, and the one
\* of a group with dated artifacts carries their greatest buildDate
KeepsGreatestBuildDate(result, survivors, Key(_)) ==
  /\ \A i, j \in 1..Len(result) : Key(result[i]) = Key(result[j]) => i = j
  /\ \A i \in 1..Len(survivors) :
       \E r \in 1..Len(result) :
         /\ Key(result[r]) = Key(survivors[i])
         /\ truthy(survivors[i].buildDate) =>
              /\ truthy(result[r].buildDate)
              /\ ~stringGreater(survivors[i].buildDate.v, result[r].buildDate.v)

\* C13: with latest = true, findCompatibleArtifacts keeps for each
\* (gpu, variant) group of the surviving artifacts, and filterArtifacts for
\* each (platform, gpu, variant) group, an artifact whose buildDate is the
\* greatest among the group's dated artifacts, whatever the input order.
C13_KeepsGreatestBuildDate ==
  /\ CollapsedCompatible => KeepsGreatestBuildDate(compatible, pending, gpuVariantKey)
  /\ CollapsedFiltered => KeepsGreatestBuildDate(filtered, pending, platformGpuVariantKey)

\* C14: in each step of the latest collapse of either function, an artifact
\* without buildDate leaves every kept artifact that has a buildDate in place.
C14_UndatedNeverReplaces ==
  [][(/\ pc \in {"group", "groupArtifacts"}
      /\ groupIdx <= Len(pending)
      /\ ~truthy(pending[groupIdx].buildDate))
       => \A i \in 1..Len(grouped) :
            truthy(grouped[i].value.buildDate)
              => Len(grouped') >= i /\ grouped'[i] = grouped[i]]_vars

\* the collapse is at an artifact without buildDate whose group already
\* keeps a dated artifact
C14_Witness ==
  /\ pc = "group"
  /\ groupIdx <= Len(pending)
  /\ pending[groupIdx] = Gfx1100NoDate
  /\ \E i \in 1..Len(grouped) :
       /\ grouped[i].key = gpuVariantKey(Gfx1100NoDate)
       /\ truthy(grouped[i].value.buildDate)

\* the orderings of a list
Orderings(list) ==
  {[i \in 1..Len(list) |-> list[p[i]]] :
     p \in {q \in [1..Len(list) -> 1..Len(list)] :
              \A i, j \in 1..Len(list) : q[i] = q[j] => i = j}}

\* C15: when findCompatibleArtifacts ran the latest collapse, it returns for
\* every ordering of the catalog the same artifacts in the same order.
C15_OrderIndependent ==
  CollapsedCompatible
    => \A reordered \in Orderings(catalog) :
         findCompatibleArtifacts(reordered, systemInfo, options) = compatible

\* C16: with latest = true, findCompatibleArtifacts applied with the same
\* profile and options to its own result returns that result, and so does
\* filterArtifacts applied with the same filters to its own result.
C16_Idempotent ==
  /\ (pc = "filtered" /\ options.latest)
       => findCompatibleArtifacts(compatible, systemInfo, options) = compatible
  /\ CollapsedFiltered => filterArtifacts(filtered, filters) = filtered

\* a collapse that dropped an artifact and kept two groups
C16_Witness ==
  /\ CollapsedCompatible
  /\ catalog = <<Gfx1100Oct20, Gfx1101Oct30, Gfx1100Oct30>>
  /\ compatible = <<Gfx1100Oct30, Gfx1101Oct30>>

\* a is of the profile's platform and families (lines 227-246)
Compatible(a) ==
  /\ a.platform = systemInfo.platform
  /\ Len(systemInfo.rocmGpuFamilies) > 0
       => PassesFamilyTest(a, systemInfo.rocmGpuFamilies)

\* a has exactly the variant and the rocmVersion the options ask for
SatisfiesOptions(a) ==
  /\ truthy(options.variant) => a.variant = options.variant
  /\ truthy(options.rocmVersion) => a.rocmVersion = options.rocmVersion.v

\* C17: with a detected GPU, every returned artifact is compatible and has
\* exactly (case included) the variant and rocmVersion asked for; without
\* latest all such artifacts are returned in the catalog's order, and with
\* latest = true each (gpu, variant) group that has such an artifact is
\* represented by exactly one of them.
C17_ExactFiltersBeforeCollapse ==
  (pc = "filtered" /\ systemInfo.detected)
    => /\ \A i \in 1..Len(compatible) :
            /\ InSeq(compatible[i], catalog)
            /\ Compatible(compatible[i])
            /\ SatisfiesOptions(compatible[i])
       /\ ~options.latest =>
            compatible = SelectSeq(catalog, LAMBDA a : Compatible(a) /\ SatisfiesOptions(a))
       /\ options.latest =>
            /\ \A i, j \in 1..Len(compatible) :
                 gpuVariantKey(compatible[i]) = gpuVariantKey(compatible[j]) => i = j
            /\ \A i \in 1..Len(catalog) :
                 (Compatible(catalog[i]) /\ SatisfiesOptions(catalog[i]))
                   => \E r \in 1..Len(compatible) :
                        gpuVariantKey(compatible[r]) = gpuVariantKey(catalog[i])

\* asked for 7.10.0 with latest, the gfx1100 group is represented by its
\* 7.10.0 artifact although its 7.11.0 artifact is of a later date
C17_Witness ==
  /\ pc = "filtered"
  /\ systemInfo = systemInfoOf("linux", Str("gfx1100"))
  /\ options = Options(Undefined, Str("7.10.0"), TRUE)
  /\ catalog = <<Gfx1100Oct20, Gfx1100Oct30>>
  /\ compatible = <<Gfx1100Oct20>>

---------------------------------------------------------------------------
(* Properties of detectGpuArch and detectSystem *)

\* the tag of rocminfo's output, when rocminfo ran and printed one
RocminfoTag == IF rocminfo.threw THEN Null ELSE rocminfoMatch(rocminfo.output)

\* the arch the device table has for the first AMD device ID of the listing
TableArch ==
  IF lspci.threw \/ deviceIdMatch(lspci.output) = Null THEN Null
  ELSE mapDeviceIdToArch(toLowerCase(deviceIdMatch(lspci.output).v))

\* detectGpuArch has returned
GpuArchReturned == pc \in {"mapArch", "detected"}

\* the listing names AMD as the vendor of a device, by ID or by name
NamesAmdDevice(listing) ==
  \/ includes(listing, "[1002:")
  \/ includes(listing, "[AMD/ATI]")
  \/ includes(listing, "Advanced Micro Devices")

\* C18: detectGpuArch returns 'unknown-amd' only for a listing that names an
\* AMD/ATI device; when lspci gave a listing of other vendors' devices only,
\* it returns null.
C18_SentinelOnlyForAmd ==
  GpuArchReturned
    => /\ gpuArch = Str("unknown-amd")
            => ~lspci.threw /\ NamesAmdDevice(lspci.output)
       /\ (lspciRan /\ ~lspci.threw /\ ~NamesAmdDevice(lspci.output))
            => gpuArch = Null

\* C19: when rocminfo prints a gfx tag, lspci is never run and the tag is
\* returned in lower case; otherwise, when the device table has the listing's
\* AMD device ID, its arch is returned whatever names the listing holds; the
\* name rules are reached only without a tag and without a table entry, and
\* they give the arch of the first rule, in list order, that matches.
C19_StrictPriority ==
  /\ [](/\ RocminfoTag # Null
            => /\ ~lspciRan
               /\ pc \notin {"lspci", "deviceId", "gpuMappings"}
               /\ GpuArchReturned => gpuArch = Str(toLowerCase(RocminfoTag.v))
        /\ (GpuArchReturned /\ RocminfoTag = Null /\ TableArch # Null)
            => gpuArch = TableArch
        /\ pc = "gpuMappings" => RocminfoTag = Null /\ TableArch = Null)
  /\ [][pc = "gpuMappings"
         => \A k \in 1..Len(gpuMappings) :
              (/\ patternTest(gpuMappings[k].pattern, toLowerCase(lspci.output))
               /\ \A m \in 1..(k - 1) :
                    ~patternTest(gpuMappings[m].pattern, toLowerCase(lspci.output)))
                => gpuArch' = Str(gpuMappings[k].arch)]_vars

\* without a tag from rocminfo, the device ID 1586 gave gfx1151 although the
\* listing holds the name Radeon RX 7900
C19_Witness ==
  /\ pc = "detected"
  /\ RocminfoTag = Null
  /\ lspci = LspciStrixHalo
  /\ patternTest(gpuMappings[3].pattern, toLowerCase(lspci.output))
  /\ gpuArch = Str("gfx1151")

\* no strategy yields a result
NoStrategyYields ==
  /\ RocminfoTag = Null
  /\ lspci.threw \/ ~amdOrAti(lspci.output)

\* C20: on a supported platform no exception leaves detectGpuArch or
\* detectSystem; a rocminfo that throws is followed by the lspci strategy;
\* and when no strategy yields a result, detectGpuArch returns null and the
\* profile has detected = false and no families.
C20_NeverThrows ==
  /\ osPlatform \in {"linux", "win32"} => pc # "thrown" /\ error = Null
  /\ (GpuArchReturned /\ rocminfo.threw) => lspciRan
  /\ (GpuArchReturned /\ NoStrategyYields) => gpuArch = Null
  /\ (pc = "detected" /\ NoStrategyYields)
       => /\ systemInfo.gpuArch = Null
          /\ systemInfo.detected = FALSE
          /\ systemInfo.rocmGpuFamilies = <<>>

\* both commands threw and the profile reports no GPU
C20_Witness ==
  /\ pc = "detected"
  /\ rocminfo = Throws
  /\ lspci = Throws
  /\ lspciRan
  /\ systemInfo.detected = FALSE
  /\ systemInfo.rocmGpuFamilies = <<>>

\* C21: on a host that is neither linux nor win32, detectSystem runs neither
\* rocminfo nor lspci and returns no profile, and it ends by throwing the
\* unsupported-platform error.
C21_UnsupportedPlatformThrows ==
  osPlatform \notin {"linux", "win32"}
    => /\ pc \in {"detectPlatform", "thrown"}
       /\ ~lspciRan
       /\ gpuArch = Undefined
       /\ systemInfo = Null
       /\ pc = "thrown" => error = Str("Unsupported platform: " \o osPlatform)
       /\ pc = "detectPlatform" => error = Null

\* on darwin the call has thrown, with both commands ready to answer
C21_Witness ==
  /\ pc = "thrown"
  /\ osPlatform = "darwin"
  /\ rocminfo = RocminfoGfx1100
  /\ lspci = LspciNavi31
  /\ error = Str("Unsupported platform: darwin")
  /\ systemInfo = Null

---------------------------------------------------------------------------
(* Properties of mapArchToRocmGpu *)

\* the argument is a key of the family table
IsTableKey == truthy(detectedArch) /\ detectedArch.v \in DOMAIN archMappings

\* C22: for an architecture of the family table, mapArchToRocmGpu returns a
\* non-empty array that ends with the architecture itself, a tag that is not
\* a wildcard, after wildcard family tags only; for gfx1151 it is ['gfx1151'].
C22_BroaderTagsFirst ==
  (pc = "mapped" /\ IsTableKey)
    => /\ archFamilies.t = "array"
       /\ Len(archFamilies.v) >= 1
       /\ archFamilies.v[Len(archFamilies.v)] = detectedArch.v
       /\ ~IsWildcard(detectedArch.v)
       /\ \A i \in 1..(Len(archFamilies.v) - 1) : IsWildcard(archFamilies.v[i])
       /\ detectedArch = Str("gfx1151") => archFamilies = Arr(<<"gfx1151">>)

\* gfx90a got its two wildcard families before itself
C22_Witness ==
  /\ pc = "mapped"
  /\ detectedArch = Str("gfx90a")
  /\ archFamilies = Arr(<<"gfx90X", "gfx94X", "gfx90a">>)

\* C23: mapArchToRocmGpu returns the empty array for an absent architecture,
\* for 'unknown-amd', and for every string that is not, letter case included,
\* a key of the family table.
C23_EmptyForUnknown ==
  (pc = "mapped" /\ ~IsTableKey) => archFamilies = Arr(<<>>)

---------------------------------------------------------------------------
(* More properties of findCompatibleArtifacts and filterArtifacts *)

\* the filters that fix the platform and ask for the latest builds
PlatformLatest(p) == Filters(Str(p), Undefined, Undefined, Undefined, TRUE)

\* a detected profile on platform p that has no families
WithoutFamilies(p) ==
  [platform |-> p, gpuArch |-> Str("unknown-amd"), rocmGpuFamilies |-> <<>>,
   detected |-> TRUE]

\* C24: with the platform fixed, what filterArtifacts returns for
\* {platform: p, latest: true} is, in the same order, what
\* findCompatibleArtifacts returns for a detected profile on p without
\* families and {latest: true}; stated from the calls of either function.
C24_CollapsesAgree ==
  /\ (pc = "filteredArtifacts" /\ \E p \in {"linux", "windows"} : filters = PlatformLatest(p))
       => filtered = findCompatibleArtifacts(catalog, WithoutFamilies(filters.platform.v),
                                             LatestOnly)
  /\ (/\ pc = "filtered"
      /\ systemInfo.detected
      /\ systemInfo.rocmGpuFamilies = <<>>
      /\ options = LatestOnly)
       => compatible = filterArtifacts(catalog, PlatformLatest(systemInfo.platform))

\* filterArtifacts for linux collapsed the two gfx1100 builds and kept the
\* gfx1101 build, and dropped the windows build
C24_Witness ==
  /\ pc = "filteredArtifacts"
  /\ filters = PlatformLatest("linux")
  /\ catalog = <<Gfx1100Oct20, Gfx1101Oct30, Gfx1100Oct30>>
  /\ filtered = <<Gfx1100Oct30, Gfx1101Oct30>>

\* C25: when detectGpuArch returns an architecture from the device table or
\* from the name rules, the profile's family set is not empty.
C25_IdentifiedChipHasFamilies ==
  (/\ pc = "detected"
   /\ RocminfoTag = Null
   /\ gpuArch \notin {Null, Str("unknown-amd")})
    => systemInfo.rocmGpuFamilies # <<>>

\* C26: without a detected GPU findCompatibleArtifacts returns the catalog as
\* given, whatever the options, and the latest collapse is never entered.
C26_UndetectedReturnsCatalog ==
  (pc \in {"group", "filtered"} /\ ~systemInfo.detected)
    => /\ pc = "filtered"
       /\ compatible = catalog
       /\ pending = <<>> /\ grouped = <<>> /\ groupIdx = 0

\* a catalog of two platforms, two versions and two builds of one group came
\* back whole although a version and latest were asked for
C26_Witness ==
  /\ pc = "filtered"
  /\ ~systemInfo.detected
  /\ options = Options(Undefined, Str("7.10.0"), TRUE)
  /\ catalog = <<WinGfx1100, Gfx1100Oct20, Gfx1100Oct30>>
  /\ compatible = catalog

---------------------------------------------------------------------------
(* Properties of the recommendation of main *)

\* the filename carries the ADHOCBUILD segment
CarriesAdhocSegment(a) == InSeq("ADHOCBUILD", split(a.filename))

RECURSIVE NumberOf(_)
NumberOf(digits) ==
  IF digits = "" THEN 0
  ELSE 10 * NumberOf(SubSeq(digits, 1, Len(digits) - 1))
       + (charCode(CharAt(digits, Len(digits))) - charCode("0"))

\* the components of a dotted version, as numbers
RECURSIVE ComponentsOf(_)
ComponentsOf(version) ==
  IF \E i \in 1..Len(version) : CharAt(version, i) = "."
  THEN LET i == CHOOSE k \in 1..Len(version) :
                  /\ CharAt(version, k) = "."
                  /\ \A j \in 1..(k - 1) : CharAt(version, j) # "."
       IN <<NumberOf(SubSeq(version, 1, i - 1))>>
            \o ComponentsOf(SubSeq(version, i + 1, Len(version)))
  ELSE <<NumberOf(version)>>

\* version a is numerically lower than version b
RanksBelow(a, b) ==
  LET ca == ComponentsOf(a)
      cb == ComponentsOf(b)
      at(c, i) == IF i <= Len(c) THEN c[i] ELSE 0
      n == IF Len(ca) > Len(cb) THEN Len(ca) ELSE Len(cb)
  IN \E i \in 1..n :
       /\ at(ca, i) < at(cb, i)
       /\ \A j \in 1..(i - 1) : at(ca, j) = at(cb, j)

\* build date d is earlier than build date e, no date being the earliest
EarlierDate(d, e) == stringGreater(orEmpty(e), orEmpty(d))

\* C28: the build main recommends has the numerically highest rocmVersion
\* of the candidate builds (7.10.0 above 7.9.0) and, among the candidates
\* of that version, the greatest buildDate
C28_RecommendsHighestVersion ==
  (pc = "recommended" /\ latestStable # Undefined)
    => \A i \in 1..Len(notAdhoc(compatible)) :
         LET c == notAdhoc(compatible)[i]
         IN /\ ~RanksBelow(latestStable.rocmVersion, c.rocmVersion)
            /\ c.rocmVersion = latestStable.rocmVersion
                 => ~EarlierDate(latestStable.buildDate, c.buildDate)

\* the same with the versions ranked as localeCompare ranks them
RecommendsGreatestString ==
  (pc = "recommended" /\ latestStable # Undefined)
    => \A i \in 1..Len(notAdhoc(compatible)) :
         LET c == notAdhoc(compatible)[i]
         IN /\ ~stringGreater(c.rocmVersion, latestStable.rocmVersion)
            /\ c.rocmVersion = latestStable.rocmVersion
                 => ~EarlierDate(latestStable.buildDate, c.buildDate)

---------------------------------------------------------------------------
(* Properties of the comparator of groupPackagesByName *)

Sign(n) == IF n > 0 THEN 1 ELSE IF n < 0 THEN -1 ELSE 0

\* swapping the arguments reverses the result
Antisymmetric ==
  \A ij \in DOMAIN compared :
    Sign(compared[<<ij[2], ij[1]>>]) = 0 - Sign(compared[ij])

\* a before-or-equal b and b before-or-equal c give a before-or-equal c,
\* strictly when one of the two is strict
Transitive ==
  \A ij \in DOMAIN compared : \A k \in 1..Len(packages) :
    LET i == ij[1]
        j == ij[2]
    IN (<<j, k>> \in DOMAIN compared
          /\ compared[<<i, j>>] <= 0 /\ compared[<<j, k>>] <= 0)
         => /\ compared[<<i, k>>] <= 0
            /\ (compared[<<i, j>>] < 0 \/ compared[<<j, k>>] < 0)
                 => compared[<<i, k>>] < 0

\* base versions rank by the numbers of their components
BaseVersionsNumeric ==
  \A ij \in DOMAIN compared :
    RanksBelow(packages[ij[2]].baseVersion, packages[ij[1]].baseVersion)
      => compared[ij] < 0

\* C29: over the packages of one name, those without rocmVersion or devDate
\* included, the sort comparator of groupPackagesByName is antisymmetric and
\* transitive, and ranks base versions by their numeric components
C29_ComparatorConsistent ==
  pc = "grouped" => Antisymmetric /\ Transitive /\ BaseVersionsNumeric

\* the parts of C29 that do hold: antisymmetry and the numeric base versions
ComparatorAntisymmetric ==
  pc = "grouped" => Antisymmetric /\ BaseVersionsNumeric

---------------------------------------------------------------------------
(* Properties of installRocm *)

\* an installation existed at installDir when the call began: it is there
\* still or it is at the backup path
ExistedBefore == installDir = "previous" \/ backupDir = "previous"

\* a whole installation is at installDir
InstallationPresent == installDir \in {"previous", "new", "newWithInfo"}

\* C30: when an installation existed at installDir before the call and
\* installRocm returns false, an installation is present at installDir
\* afterwards; the previous installation is only moved to the backup path
C30_FailureKeepsInstallation ==
  (pc = "returnedFalse" /\ ExistedBefore) => InstallationPresent

\* the part of C30 that does hold: the previous installation is never
\* deleted, it stays at installDir until it is at the backup path
PreviousNeverDeleted ==
  [][(installDir = "previous" /\ installDir' # "previous")
       => backupDir' = "previous"]_vars

====
